---- MODULE Spec2Model ----
(***************************************************************************)
(* Verification model of the frame detection / fitting / grouping engine   *)
(* (backend/src/cad, backend/src/models).                                  *)
(*                                                                         *)
(* Conventions                                                             *)
(*  - Python Optional values are sequences: None is <<>> and a value v is  *)
(*    <<v>>; Python truthiness of an Optional is Truthy.                   *)
(*  - Python floats are modelled as exact rationals [n |-> num, d |-> den] *)
(*    in lowest terms with d > 0 (section "Rationals").                    *)
(*  - uuid4() identifiers are modelled as fresh integers.                  *)
(*  - Flag strings are ASCII names; the source's text is in the comment.   *)
(***************************************************************************)
EXTENDS Integers, Sequences, FiniteSets, TLC

VARIABLES
    pc,                 \* which operation has run: "init" | "done" | ...
    frames,             \* group_a4_pages: the input list[FrameMeta]
    remaining_frames,   \* group_a4_pages: returned flat list
    sheet_sets,         \* group_a4_pages: returned list[SheetSet]
    clusters,           \* group_a4_pages: result of _build_clusters (frame lists)
    self_sheet,         \* validate_consistency: the SheetSet it is called on (self)
    new_flags,          \* validate_consistency: the list it returned
    fitter,             \* PaperFitter: its configuration (self)
    paper_variants,     \* PaperFitter.fit: the catalog, in insertion order
    bbox_obs,           \* PaperFitter.fit: the observed rectangle
    fit_result,         \* PaperFitter.fit: what it returned (with the error)
    fit_all_results,    \* PaperFitter.fit_all: what it returned
    locator,            \* AnchorFirstLocator: its configuration (self)
    rectangles,         \* locate_frames: what find_rectangles(msp) returns
    text_items,         \* locate_frames: list(_iter_text_items(msp))
    candidates,         \* locate_frames: result of _build_candidates
    selections,         \* locate_frames: the candidate selected per primary hit
    located,            \* locate_frames: returned list[FrameMeta]
    detector,           \* FrameDetector: its configuration (self)
    polylines,          \* detect_frames: the LWPOLYLINE entities of the model space
    msp_texts,          \* detect_frames: the TEXT / MTEXT entities of the model space
    detected,           \* detect_frames: returned list[FrameMeta]
    extractor,          \* TitleblockExtractor: its configuration (self)
    dxf_doc,            \* extract_fields: the model space of the DXF file, if readable
    target_frame,       \* extract_fields: the FrameMeta it is called on (frame)
    extract_calls,      \* extract_fields: the frame before and after each call
    page_texts,         \* _parse_page_info: the texts of the page-info ROI
    page_info,          \* _parse_page_info: what it returned
    finder,             \* CandidateFinder: its configuration (self)
    msp_entities,       \* find_rectangles: the entities of the model space
    found_rectangles,   \* find_rectangles: what it returned
    job,                \* PipelineExecutor.execute: the Job it is called on
    next_stage,         \* execute: position in DELIVERABLE_STAGES
    stage_log,          \* execute: the stages whose handler has been entered
    outcome,            \* execute: how the call ended for the caller
    flag_job,           \* add_flag: the Job it is called on
    flag_frame,         \* add_flag: the FrameMeta it is called on
    flag_calls,         \* add_flag: the calls made so far, [target, flag]
    doc_frames,         \* get_sorted_frames: the frames of the DocContext (self.frames)
    sorted_frames,      \* get_sorted_frames: what it returned
    roi_args,           \* the arguments of _restore_roi: [outer_bbox, rb_offset, sx, sy]
    roi_result,         \* the ROI each component restored from roi_args, or None
    stage_job,          \* the job a stage handler is called with
    stage_items,        \* the files or frames of the stage: [name, raises, runtime]
    stage_result,       \* what the stage left: [stage, raised, job, called, frames], or None
    scan_msp,           \* the model space of a text scan: its entities
    scan_stack,         \* the calls of walk_entity not yet made: [ent, depth]
    scan_visited,       \* the entities walk_entity went into: [tp, depth]
    scan_items,         \* the TextItems yielded so far: [text, source]
    cancel_log          \* the calls of cancel_job made: [before, after, returned]

groupVars == <<frames, remaining_frames, sheet_sets, clusters>>
validateVars == <<self_sheet, new_flags>>
fitVars == <<fitter, paper_variants, bbox_obs, fit_result, fit_all_results>>
locateVars == <<locator, rectangles, text_items, candidates, selections, located>>
detectVars == <<detector, polylines, msp_texts, detected>>
extractVars == <<extractor, dxf_doc, target_frame, extract_calls>>
pageVars == <<page_texts, page_info>>
finderVars == <<finder, msp_entities, found_rectangles>>
jobVars == <<job, next_stage, stage_log, outcome>>
flagVars == <<flag_job, flag_frame, flag_calls>>
docVars == <<doc_frames, sorted_frames>>
roiVars == <<roi_args, roi_result>>
stageVars == <<stage_job, stage_items, stage_result>>
scanVars == <<scan_msp, scan_stack, scan_visited, scan_items>>
cancelVars == <<cancel_log>>
restVars == <<flagVars, docVars, roiVars, stageVars, scanVars, cancelVars>>
vars == <<pc, groupVars, validateVars, fitVars, locateVars, detectVars,
          extractVars, pageVars, finderVars, jobVars, restVars>>

\* ------------------------------------------------------------------ bounds
MaxFrames == 3          \* frames in one group_a4_pages call (layout runs)
MaxPage == 3            \* largest extracted page number
MaxPages == 3           \* pages of a SheetSet built directly (validation runs)
MaxVariants == 2        \* variants of a catalog (fitting runs)
MaxRects == 3           \* candidate rectangles of a drawing (locating runs)
MaxTexts == 3           \* texts of a drawing (locating and detecting runs)
MaxPolylines == 3       \* polylines of a drawing (detecting runs)
MaxEntities == 3        \* text entities of a drawing (extracting runs)
MaxCalls == 2           \* calls of extract_fields on one frame
MaxExchange == 3        \* first position of an exchanged pair (external-code runs)
MaxPageTexts == 3       \* texts of the page-info ROI (page-info runs)
MaxMspEntities == 5     \* polylines and lines of a model space (finding runs)
MaxFlagCalls == 4       \* calls of add_flag on the job and the frame (flag runs)
MaxStageItems == 4      \* files or frames of one stage (stage runs)
MaxScanEntities == 2    \* entities of a scanned model space (scanning runs)
MaxCancelCalls == 2     \* calls of cancel_job during one execution (cancelling runs)
MaxDocFrames == 3       \* frames of a DocContext (sorting runs)

\* ---------------------------------------------------------------- optionals
None == <<>>
Some(v) == <<v>>
IsNone(o) == o = <<>>
Val(o) == o[1]
\* Python truthiness of an Optional[int] / Optional[str]
TruthyInt(o) == o # <<>> /\ o[1] # 0
TruthyStr(o) == o # <<>> /\ o[1] # ""

\* a list comprehension, built once as a list (a TLA+ function over 1..n is
\* otherwise re-evaluated at every use)
List(f) == f \o <<>>

Min2(a, b) == IF a <= b THEN a ELSE b
Max2(a, b) == IF a >= b THEN a ELSE b

\* ascending sequence of a finite set of integers
RECURSIVE SortedSeq(_)
SortedSeq(S) ==
    IF S = {} THEN <<>>
    ELSE LET m == CHOOSE x \in S : \A y \in S : x <= y
         IN <<m>> \o SortedSeq(S \ {m})

\* --------------------------------------------------------------- Rationals
\* Python floats as exact rationals [n, d] in lowest terms, d > 0
RECURSIVE Gcd(_, _)
Gcd(a, b) == IF b = 0 THEN a ELSE Gcd(b, a % b)
Abs(a) == IF a < 0 THEN -a ELSE a
Rat(n, d) ==
    LET g == Gcd(Abs(n), Abs(d))
        s == IF d < 0 THEN -1 ELSE 1
    IN [n |-> (s * n) \div g, d |-> (s * d) \div g]
RInt(i) == [n |-> i, d |-> 1]
RAdd(a, b) == Rat(a.n * b.d + b.n * a.d, a.d * b.d)
RSub(a, b) == Rat(a.n * b.d - b.n * a.d, a.d * b.d)
RMul(a, b) == Rat(a.n * b.n, a.d * b.d)
RDiv(a, b) == Rat(a.n * b.d, a.d * b.n)
RAbs(a) == [n |-> Abs(a.n), d |-> a.d]
RLt(a, b) == a.n * b.d < b.n * a.d
RLe(a, b) == a.n * b.d <= b.n * a.d
RMax(a, b) == IF RLt(a, b) THEN b ELSE a
\* the guard 1e-9 of max(x, 1e-9): x > 1e-9 iff x.n * 10^9 > x.d, computed
\* without forming the product
EpsDen == 1000000000
REps == [n |-> 1, d |-> EpsDen]
RMaxEps(a) == IF a.n > 0 /\ (a.d \div a.n) < EpsDen THEN a ELSE REps
\* float("inf"): RLt and RLe order it above every rational
RInf == [n |-> 1, d |-> 0]

\* -------------------------------------------------------------------- BBox
BBox(x0, y0, x1, y1) == [xmin |-> x0, ymin |-> y0, xmax |-> x1, ymax |-> y1]
width(b) == b.xmax - b.xmin
height(b) == b.ymax - b.ymin

\* ------------------------------------------------------- A4MultipageGrouper
\* a4_config.cluster_building.gap_threshold_factor, default 0.5 = 1/2
GapFactorNum == 1
GapFactorDen == 2

\* paper-variant ids of the catalog; A4Ids are those in which "A4" occurs
A4Ids == {"CNPE_A4"}
PaperIds == {"CNPE_A4", "CNPE_A3"}

\* _is_a4_frame: paper_id is not None and "A4" in paper_id
is_a4_frame(frame) ==
    /\ frame.runtime.paper_variant_id # None
    /\ Val(frame.runtime.paper_variant_id) \in A4Ids

\* mutant of frames_are_neighbors: a gap equal to the threshold is accepted
frames_are_neighbors_le(f1, f2, gn, gd) ==
    LET b1 == f1.runtime.outer_bbox
        b2 == f2.runtime.outer_bbox
        min_size == Min2(Min2(width(b1), height(b1)), Min2(width(b2), height(b2)))
        dx == Max2(0, Max2(b1.xmin, b2.xmin) - Min2(b1.xmax, b2.xmax))
        dy == Max2(0, Max2(b1.ymin, b2.ymin) - Min2(b1.ymax, b2.ymax))
    IN dx * gd <= gn * min_size /\ dy * gd <= gn * min_size
\* _frames_are_neighbors with gap_factor = gn/gd:
\*   dx < gap_factor * min_size  <=>  dx * gd < gn * min_size   (gd > 0)
frames_are_neighbors(f1, f2, gn, gd) ==
    LET b1 == f1.runtime.outer_bbox
        b2 == f2.runtime.outer_bbox
        min_size == Min2(Min2(width(b1), height(b1)), Min2(width(b2), height(b2)))
        dx == Max2(0, Max2(b1.xmin, b2.xmin) - Min2(b1.xmax, b2.xmax))
        dy == Max2(0, Max2(b1.ymin, b2.ymin) - Min2(b1.ymax, b2.ymax))
    IN dx * gd < gn * min_size /\ dy * gd < gn * min_size

\* the adjacency lists built by the double loop of _build_clusters: for i < j
\* with frames_are_neighbors(a4[i], a4[j]) j is appended to adj[i] and i to
\* adj[j]; the loop order leaves every adj[k] in ascending order
build_adj(a4) ==
    List([k \in 1..Len(a4) |->
        SortedSeq({j \in 1..Len(a4) :
            /\ j # k
            /\ frames_are_neighbors(a4[Min2(k, j)], a4[Max2(k, j)],
                                    GapFactorNum, GapFactorDen)})])

\* _dfs: st = [visited |-> set of indices, cluster |-> sequence of indices]
RECURSIVE dfs(_, _, _)
RECURSIVE dfs_loop(_, _, _, _)
\* mutant of dfs: visits the direct neighbors of the node without recursing
dfs_direct_only(node, adj, st) ==
    LET fresh == SelectSeq(adj[node], LAMBDA j : j \notin st.visited /\ j # node)
    IN [visited |-> st.visited \cup {node} \cup {fresh[i] : i \in 1..Len(fresh)},
        cluster |-> Append(st.cluster, node) \o fresh]
dfs(node, adj, st) ==
    dfs_loop(node, adj, 1,
             [visited |-> st.visited \cup {node},
              cluster |-> Append(st.cluster, node)])
dfs_loop(node, adj, k, st) ==
    IF k > Len(adj[node]) THEN st
    ELSE LET neighbor == adj[node][k]
         IN dfs_loop(node, adj, k + 1,
                     IF neighbor \notin st.visited THEN dfs(neighbor, adj, st)
                     ELSE st)

\* the component loop of _build_clusters: clusters as lists of indices into a4
RECURSIVE build_clusters_loop(_, _, _, _, _)
build_clusters_loop(i, n, adj, visited, acc) ==
    IF i > n THEN acc
    ELSE IF i \in visited THEN build_clusters_loop(i + 1, n, adj, visited, acc)
    ELSE LET st == dfs(i, adj, [visited |-> visited, cluster |-> <<>>])
         IN build_clusters_loop(i + 1, n, adj, st.visited, Append(acc, st.cluster))

\* _build_clusters: list of clusters, each a list of frames
build_clusters(a4) ==
    IF Len(a4) = 0 THEN <<>>
    ELSE LET idx == build_clusters_loop(1, Len(a4), build_adj(a4), {}, <<>>)
         IN List([c \in 1..Len(idx) |-> List([k \in 1..Len(idx[c]) |-> a4[idx[c][k]]])])

\* _calculate_master_score
calculate_master_score(frame) ==
    LET tb == frame.titleblock
    IN (IF TruthyStr(tb.engineering_no) THEN 1 ELSE 0)
     + (IF TruthyStr(tb.internal_code) THEN 1 ELSE 0)
     + (IF TruthyStr(tb.external_code) THEN 1 ELSE 0)
     + (IF TruthyInt(tb.page_total) THEN 1 ELSE 0)
     + (IF tb.page_index = Some(1) THEN 2 ELSE 0)

\* _identify_master: the loop over the cluster with (best_master, best_score),
\* starting from (None, -1) and replacing on a strictly greater score
RECURSIVE identify_master_loop(_, _, _, _)
identify_master_loop(cluster, k, best_master, best_score) ==
    IF k > Len(cluster) THEN best_master
    ELSE LET score == calculate_master_score(cluster[k])
         IN IF score > best_score
            THEN identify_master_loop(cluster, k + 1, Some(cluster[k]), score)
            ELSE identify_master_loop(cluster, k + 1, best_master, best_score)

\* mutant of identify_master: replaces on score >= best_score, so the last of
\* several best frames wins
RECURSIVE identify_master_last_loop(_, _, _, _)
identify_master_last_loop(cluster, k, best_master, best_score) ==
    IF k > Len(cluster) THEN best_master
    ELSE LET score == calculate_master_score(cluster[k])
         IN IF score >= best_score
            THEN identify_master_last_loop(cluster, k + 1, Some(cluster[k]), score)
            ELSE identify_master_last_loop(cluster, k + 1, best_master, best_score)
identify_master_last(cluster) == identify_master_last_loop(cluster, 1, None, -1)
identify_master(cluster) == identify_master_loop(cluster, 1, None, -1)

\* list.sort(key=lambda p: p.page_index): a stable ascending sort
RECURSIVE insert_by_page_index(_, _)
insert_by_page_index(sorted, p) ==
    IF sorted = <<>> THEN <<p>>
    ELSE IF Head(sorted).page_index <= p.page_index
         THEN <<Head(sorted)>> \o insert_by_page_index(Tail(sorted), p)
         ELSE <<p>> \o sorted
RECURSIVE sort_by_page_index(_)
\* mutant of sort_by_page_index: the pages stay in cluster order
sort_by_page_index_skipped(ps) == ps
sort_by_page_index(ps) ==
    IF ps = <<>> THEN <<>>
    ELSE insert_by_page_index(sort_by_page_index(SubSeq(ps, 1, Len(ps) - 1)),
                              ps[Len(ps)])

\* sorted(p.page_index for p in pages)
RECURSIVE insert_int(_, _)
insert_int(sorted, v) ==
    IF sorted = <<>> THEN <<v>>
    ELSE IF Head(sorted) <= v THEN <<Head(sorted)>> \o insert_int(Tail(sorted), v)
         ELSE <<v>> \o sorted
RECURSIVE sorted_ints(_)
sorted_ints(vs) ==
    IF vs = <<>> THEN <<>>
    ELSE insert_int(sorted_ints(SubSeq(vs, 1, Len(vs) - 1)), vs[Len(vs)])

\* ------------------------------------------------------------------ SheetSet
FLAG_PAGE_COUNT == "A4_PAGE_COUNT_MISMATCH"        \* "A4多页_页数不一致"
FLAG_INDEX_DUPLICATE == "A4_PAGE_INDEX_DUPLICATE"  \* "A4多页_页码重复"
FLAG_INDEX_GAP == "A4_PAGE_INDEX_NOT_CONTIGUOUS"   \* "A4多页_页码不连续"
FLAG_FIRST_PAGE == "A4_FIRST_PAGE_INDEX_ABNORMAL"  \* "A4多页_首页页码异常"

\* list(range(1, page_total + 1))
range1(n) == [i \in 1..n |-> i]

\* mutant of validate_consistency: repeated indices are not told apart from
\* merely non-contiguous ones
validate_consistency_no_duplicate(ss) ==
    LET indices == sorted_ints([i \in 1..Len(ss.pages) |-> ss.pages[i].page_index])
        expected == range1(ss.page_total)
        f1 == IF Len(ss.pages) # ss.page_total THEN <<FLAG_PAGE_COUNT>> ELSE <<>>
        f2 == IF indices # expected THEN <<FLAG_INDEX_GAP>> ELSE <<>>
        f3 == IF ss.master_page # None /\ Val(ss.master_page).page_index # 1
              THEN <<FLAG_FIRST_PAGE>> ELSE <<>>
    IN f1 \o f2 \o f3
\* SheetSet.validate_consistency: the list new_flags it returns
validate_consistency(ss) ==
    LET indices == sorted_ints([i \in 1..Len(ss.pages) |-> ss.pages[i].page_index])
        expected == range1(ss.page_total)
        f1 == IF Len(ss.pages) # ss.page_total THEN <<FLAG_PAGE_COUNT>> ELSE <<>>
        f2 == IF indices # expected
              THEN IF Len(indices) # Cardinality({indices[i] : i \in 1..Len(indices)})
                   THEN <<FLAG_INDEX_DUPLICATE>>
                   ELSE <<FLAG_INDEX_GAP>>
              ELSE <<>>
        f3 == IF ss.master_page # None /\ Val(ss.master_page).page_index # 1
              THEN <<FLAG_FIRST_PAGE>> ELSE <<>>
    IN f1 \o f2 \o f3

\* mutant of validated: the flags are replaced by the returned list
validated_replaced(ss) == [ss EXCEPT !.flags = validate_consistency(ss)]
\* the object after validate_consistency: self.flags.extend(new_flags)
validated(ss) == [ss EXCEPT !.flags = ss.flags \o validate_consistency(ss)]

\* --------------------------------------------- A4MultipageGrouper, continued
\* _process_cluster; cid stands for the uuid4 cluster_id
process_cluster(cluster, cid) ==
    LET master == identify_master(cluster)
    IN IF master = None THEN None
       ELSE
       LET m == Val(master)
           page_total == IF TruthyInt(m.titleblock.page_total)
                         THEN Val(m.titleblock.page_total) ELSE Len(cluster)
           pages0 == List([k \in 1..Len(cluster) |->
               LET frame == cluster[k]
                   is_master == frame.runtime.frame_id = m.runtime.frame_id
               IN [page_index |-> IF TruthyInt(frame.titleblock.page_index)
                                  THEN Val(frame.titleblock.page_index)
                                  ELSE (IF is_master THEN 1 ELSE 0),
                   outer_bbox |-> frame.runtime.outer_bbox,
                   has_titleblock |-> is_master,
                   frame_meta |-> IF is_master THEN Some(frame) ELSE None,
                   \* ghost, not a field of PageInfo: the frame the page is of
                   of_frame |-> frame.runtime.frame_id]])
           pages == sort_by_page_index(pages0)
           sheet_set == [cluster_id |-> cid,
                         page_total |-> page_total,
                         pages |-> pages,
                         master_page |-> IF Len(pages) > 0 /\ pages[1].has_titleblock
                                         THEN Some(pages[1]) ELSE None,
                         flags |-> <<>>]
       IN Some(validated(sheet_set))

\* the loop of group_a4_pages over the clusters:
\* acc = [sheet_sets, processed_frame_ids]
RECURSIVE group_loop(_, _, _)
group_loop(cls, k, acc) ==
    IF k > Len(cls) THEN acc
    ELSE IF Len(cls[k]) < 2 THEN group_loop(cls, k + 1, acc)
    ELSE LET sheet_set == process_cluster(cls[k], k)
         IN IF sheet_set # None
            THEN group_loop(cls, k + 1,
                    [sheet_sets |-> Append(acc.sheet_sets, Val(sheet_set)),
                     processed_frame_ids |-> acc.processed_frame_ids \cup
                         {cls[k][i].runtime.frame_id : i \in 1..Len(cls[k])}])
            ELSE group_loop(cls, k + 1, acc)

\* [f for f in fs if keep(f)]
RECURSIVE filter_a4(_)
filter_a4(fs) ==
    IF fs = <<>> THEN <<>>
    ELSE (IF is_a4_frame(Head(fs)) THEN <<Head(fs)>> ELSE <<>>) \o filter_a4(Tail(fs))
RECURSIVE filter_unprocessed(_, _)
\* mutant of filter_unprocessed: the absorbed frames are not removed
filter_unprocessed_none(fs, processed) == fs
filter_unprocessed(fs, processed) ==
    IF fs = <<>> THEN <<>>
    ELSE (IF Head(fs).runtime.frame_id \notin processed THEN <<Head(fs)>> ELSE <<>>)
         \o filter_unprocessed(Tail(fs), processed)

\* group_a4_pages: [remaining, sheet_sets, clusters]
group_a4_pages(fs) ==
    LET a4_frames == filter_a4(fs)
    IN IF Len(a4_frames) < 2
       THEN [remaining |-> fs, sheet_sets |-> <<>>, clusters |-> <<>>]
       ELSE LET cls == build_clusters(a4_frames)
                acc == group_loop(cls, 1, [sheet_sets |-> <<>>,
                                           processed_frame_ids |-> {}])
            IN [remaining |-> filter_unprocessed(fs, acc.processed_frame_ids),
                sheet_sets |-> acc.sheet_sets,
                clusters |-> cls]


\* -------------------------------------------------------------- PaperFitter
\* uniform_scale_tol, default 0.02 = 1/50
UniformScaleTolNum == 1
UniformScaleTolDen == 50
UniformScaleTol == Rat(UniformScaleTolNum, UniformScaleTolDen)
MAX_REL_ERROR == "max_rel_error(W,H)"

\* _compute_error; cfg is the fitter (self)
compute_error(cfg, W_obs, H_obs, W_std, H_std, sx, sy) ==
    IF cfg.error_metric = MAX_REL_ERROR
    THEN LET scale == RDiv(RAdd(sx, sy), RInt(2))
         IN RMax(RDiv(RAbs(RSub(RMul(RInt(W_std), scale), RInt(W_obs))),
                      RMaxEps(RInt(W_obs))),
                 RDiv(RAbs(RSub(RMul(RInt(H_std), scale), RInt(H_obs))),
                      RMaxEps(RInt(H_obs))))
    ELSE RDiv(RAbs(RSub(sx, sy)), RMaxEps(RMax(sx, sy)))

\* _evaluate_variant: None, or (sx, sy, error)
evaluate_variant(cfg, W_obs, H_obs, W_std, H_std) ==
    LET sx == Rat(W_obs, W_std)
        sy == Rat(H_obs, H_std)
    IN IF /\ cfg.uniform_scale_required
          /\ RLt(UniformScaleTol, RDiv(RAbs(RSub(sx, sy)), RMaxEps(RMax(sx, sy))))
       THEN None
       ELSE Some([sx |-> sx, sy |-> sy,
                  error |-> compute_error(cfg, W_obs, H_obs, W_std, H_std, sx, sy)])

\* the results one variant adds in fit_all: unrotated, then rotated
variant_row(variant, candidate) ==
    IF candidate = None THEN <<>>
    ELSE <<[variant_id |-> variant.id, sx |-> Val(candidate).sx,
            sy |-> Val(candidate).sy, profile |-> variant.profile,
            error |-> Val(candidate).error]>>
variant_results(cfg, W_obs, H_obs, variant) ==
    IF variant.W = 0 \/ variant.H = 0 \/ variant.profile = "" THEN <<>>
    ELSE variant_row(variant,
                     evaluate_variant(cfg, W_obs, H_obs, variant.W, variant.H))
         \o (IF cfg.allow_rotation
             THEN variant_row(variant,
                      evaluate_variant(cfg, W_obs, H_obs, variant.H, variant.W))
             ELSE <<>>)

\* fit_all: paper_variants is the dict in insertion order
RECURSIVE fit_all_loop(_, _, _, _)
fit_all_loop(cfg, W_obs, H_obs, variants) ==
    IF variants = <<>> THEN <<>>
    ELSE variant_results(cfg, W_obs, H_obs, Head(variants))
         \o fit_all_loop(cfg, W_obs, H_obs, Tail(variants))
fit_all(cfg, bbox, variants) == fit_all_loop(cfg, width(bbox), height(bbox), variants)

\* the loop of fit: best is None while best_error is float("inf")
RECURSIVE fit_loop(_, _, _)
\* mutant of fit_loop: the first qualifying pairing is kept
fit_loop_first(results, k, best) ==
    IF Len(results) = 0 THEN None ELSE Some(results[1])
fit_loop(results, k, best) ==
    IF k > Len(results) THEN best
    ELSE IF best = None \/ RLt(results[k].error, Val(best).error)
         THEN fit_loop(results, k + 1, Some(results[k]))
         ELSE fit_loop(results, k + 1, best)

\* fit: None, or the best match; its error is kept beside the returned
\* (variant_id, sx, sy, profile) for the claims
fit(cfg, bbox, variants) == fit_loop(fit_all(cfg, bbox, variants), 1, None)


\* ---------------------------------------------------------------- BusinessSpec
\* the anchor field of the ROI profiles, "锚点" in the source
ANCHOR_FIELD == "anchor"
\* get_roi_profile: the profile of titleblock_extract.roi_profiles, or None
get_roi_profile(roi_profiles, profile_id) ==
    IF profile_id \in DOMAIN roi_profiles THEN Some(roi_profiles[profile_id]) ELSE None
\* profile.fields.get(name)
fields_get(profile, name) ==
    IF name \in DOMAIN profile.fields THEN Some(profile.fields[name]) ELSE None
\* paper_variants.get(paper_id) on the dict kept as a list in insertion order
variants_get(variants, paper_id) ==
    LET hits == SelectSeq(variants, LAMBDA v : v.id = paper_id)
    IN IF hits = <<>> THEN None ELSE Some(hits[1])

\* ------------------------------------------------------- AnchorFirstLocator
\* ROI boxes have rational coordinates; outer boxes and text boxes integer ones.
\* A text is modelled by the set of anchor patterns that _match_text finds in
\* it (after removing whitespace, upper-cased for an ASCII pattern).
POLICY_DOUBLE == "double_hit_same_roi"
POLICY_ANY == "any_hit_accept"

\* _match_text
match_text(text, pattern) == pattern # "" /\ pattern \in text

\* _restore_roi; rb_offset = [dx_right, dx_left, dy_bottom, dy_top]
restore_roi(outer_bbox, rb_offset, sx, sy) ==
    LET dx_right == rb_offset[1]
        dx_left == rb_offset[2]
        dy_bottom == rb_offset[3]
        dy_top == rb_offset[4]
    IN [xmin |-> RSub(RInt(outer_bbox.xmax), RMul(RInt(dx_left), sx)),
        xmax |-> RSub(RInt(outer_bbox.xmax), RMul(RInt(dx_right), sx)),
        ymin |-> RAdd(RInt(outer_bbox.ymin), RMul(RInt(dy_bottom), sy)),
        ymax |-> RAdd(RInt(outer_bbox.ymin), RMul(RInt(dy_top), sy))]

\* _expand_roi
expand_roi(roi, margin_percent) ==
    IF RLe(margin_percent, RInt(0)) THEN roi
    ELSE LET dx == RMul(RSub(roi.xmax, roi.xmin), margin_percent)
             dy == RMul(RSub(roi.ymax, roi.ymin), margin_percent)
         IN [xmin |-> RSub(roi.xmin, dx), ymin |-> RSub(roi.ymin, dy),
             xmax |-> RAdd(roi.xmax, dx), ymax |-> RAdd(roi.ymax, dy)]

\* _point_in_bbox
point_in_bbox(x, y, bbox) ==
    /\ RLe(bbox.xmin, RInt(x)) /\ RLe(RInt(x), bbox.xmax)
    /\ RLe(bbox.ymin, RInt(y)) /\ RLe(RInt(y), bbox.ymax)

\* BBox.intersects(other) called on a ROI
intersects(self, other) ==
    ~ \/ RLt(self.xmax, RInt(other.xmin))
      \/ RLt(RInt(other.xmax), self.xmin)
      \/ RLt(self.ymax, RInt(other.ymin))
      \/ RLt(RInt(other.ymax), self.ymin)

\* _text_in_roi
text_in_roi(item, roi) ==
    \/ point_in_bbox(item.x, item.y, roi)
    \/ (item.bbox # None /\ intersects(roi, Val(item.bbox)))

\* mutant of roi_has_text: the secondary anchor is not looked for
roi_has_text_skipped(items, roi) == TRUE
\* _roi_has_text
roi_has_text(items, roi) ==
    \E k \in 1..Len(items) : text_in_roi(items[k], roi)

\* CandidateFrame.area
area(c) == width(c.bbox) * height(c.bbox)

\* _is_a4_candidate: "A4" in cand.paper_variant_id
is_a4_candidate(cand) == cand.paper_variant_id \in A4Ids

\* _candidate_key: the box rounded to 3 decimals; the boxes of the model have
\* integer coordinates, which round(v, 3) returns unchanged
candidate_key(cand) ==
    <<cand.bbox.xmin, cand.bbox.ymin, cand.bbox.xmax, cand.bbox.ymax>>

\* _compute_fit_error
compute_fit_error(variants, bbox, paper_id, sx, sy) ==
    LET variant == variants_get(variants, paper_id)
    IN IF variant = None THEN RInf
       ELSE LET W_std == RInt(Val(variant).W)
                H_std == RInt(Val(variant).H)
                scale == RDiv(RAdd(sx, sy), RInt(2))
            IN RMax(RDiv(RAbs(RSub(RMul(W_std, scale), RInt(width(bbox)))),
                         RMaxEps(RInt(width(bbox)))),
                    RDiv(RAbs(RSub(RMul(H_std, scale), RInt(height(bbox)))),
                         RMaxEps(RInt(height(bbox)))))


\* _are_neighbors on two CandidateFrames; a4_gap_factor is read from the same
\* configuration key as the grouper's gap_factor (default 0.5)
are_neighbors(c1, c2) ==
    LET b1 == c1.bbox
        b2 == c2.bbox
        min_size == Min2(Min2(width(b1), height(b1)), Min2(width(b2), height(b2)))
        dx == Max2(0, Max2(b1.xmin, b2.xmin) - Min2(b1.xmax, b2.xmax))
        dy == Max2(0, Max2(b1.ymin, b2.ymin) - Min2(b1.ymax, b2.ymax))
    IN /\ dx * GapFactorDen < GapFactorNum * min_size
       /\ dy * GapFactorDen < GapFactorNum * min_size

\* AnchorFirstLocator._dfs, on the same state as the grouper's _dfs
RECURSIVE locator_dfs(_, _, _)
RECURSIVE locator_dfs_loop(_, _, _, _)
locator_dfs(node, adj, st) ==
    locator_dfs_loop(node, adj, 1,
                     [visited |-> st.visited \cup {node},
                      cluster |-> Append(st.cluster, node)])
locator_dfs_loop(node, adj, k, st) ==
    IF k > Len(adj[node]) THEN st
    ELSE LET nxt == adj[node][k]
         IN locator_dfs_loop(node, adj, k + 1,
                             IF nxt \notin st.visited THEN locator_dfs(nxt, adj, st)
                             ELSE st)

\* _build_a4_clusters: adjacency by the double loop, then one DFS per
\* unvisited candidate; clusters are lists of candidates
RECURSIVE build_a4_clusters_loop(_, _, _, _, _)
build_a4_clusters_loop(i, n, adj, visited, acc) ==
    IF i > n THEN acc
    ELSE IF i \in visited THEN build_a4_clusters_loop(i + 1, n, adj, visited, acc)
    ELSE LET st == locator_dfs(i, adj, [visited |-> visited, cluster |-> <<>>])
         IN build_a4_clusters_loop(i + 1, n, adj, st.visited, Append(acc, st.cluster))
build_a4_clusters(a4_candidates) ==
    IF Len(a4_candidates) = 0 THEN <<>>
    ELSE LET n == Len(a4_candidates)
             adj == List([k \in 1..n |->
                        SortedSeq({j \in 1..n :
                            /\ j # k
                            /\ are_neighbors(a4_candidates[Min2(k, j)],
                                             a4_candidates[Max2(k, j)])})])
             idx == build_a4_clusters_loop(1, n, adj, {}, <<>>)
         IN List([c \in 1..Len(idx) |->
                List([k \in 1..Len(idx[c]) |-> a4_candidates[idx[c][k]]])])

\* a4_cluster_map.get(key, []) on the dict of _cluster_lookup: a later cluster
\* overwrites the entry of an earlier one
cluster_lookup_get(a4_clusters, key) ==
    LET holds == {c \in 1..Len(a4_clusters) :
                    \E k \in 1..Len(a4_clusters[c]) :
                        candidate_key(a4_clusters[c][k]) = key}
    IN IF holds = {} THEN <<>>
       ELSE a4_clusters[CHOOSE c \in holds : \A d \in holds : d <= c]

\* candidates.sort(key=area, reverse=True): stable, equal areas keep their order
RECURSIVE insert_by_area(_, _)
insert_by_area(sorted, c) ==
    IF sorted = <<>> THEN <<c>>
    ELSE IF area(Head(sorted)) >= area(c)
         THEN <<Head(sorted)>> \o insert_by_area(Tail(sorted), c)
         ELSE <<c>> \o sorted
RECURSIVE sort_by_area(_, _)
sort_by_area(cands, acc) ==
    IF cands = <<>> THEN acc
    ELSE sort_by_area(Tail(cands), insert_by_area(acc, Head(cands)))

\* the body of the loop of _build_candidates for one rectangle: the candidate
\* as a list of length 0 or 1. self = [paper_variants, fitter, roi_profiles,
\* roi_field_name, roi_margin_percent, match_policy, max_candidates,
\* primary_text, secondary_text]
candidate_frame(self, bbox, paper_id, sx, sy, profile_id, rb_offset) ==
    IF rb_offset = None \/ Val(rb_offset) = <<>> THEN <<>>
    ELSE <<[bbox |-> bbox,
            paper_variant_id |-> paper_id,
            sx |-> sx,
            sy |-> sy,
            roi_profile_id |-> profile_id,
            anchor_roi |-> expand_roi(restore_roi(bbox, Val(rb_offset), sx, sy),
                                      self.roi_margin_percent),
            fit_error |-> compute_fit_error(self.paper_variants, bbox,
                                            paper_id, sx, sy)]>>
candidate_of_profile(self, bbox, paper_id, sx, sy, profile_id, profile) ==
    IF profile = None THEN <<>>
    ELSE candidate_frame(self, bbox, paper_id, sx, sy, profile_id,
                         fields_get(Val(profile), self.roi_field_name))
candidate_of_fit(self, bbox, fitted) ==
    IF fitted = None THEN <<>>
    ELSE candidate_of_profile(self, bbox, Val(fitted).variant_id, Val(fitted).sx,
                              Val(fitted).sy, Val(fitted).profile,
                              get_roi_profile(self.roi_profiles, Val(fitted).profile))
build_candidate(self, bbox) ==
    candidate_of_fit(self, bbox, fit(self.fitter, bbox, self.paper_variants))

\* _build_candidates; rects is candidate_finder.find_rectangles(msp)
RECURSIVE build_candidates_loop(_, _)
build_candidates_loop(self, rects) ==
    IF rects = <<>> THEN <<>>
    ELSE build_candidate(self, Head(rects)) \o build_candidates_loop(self, Tail(rects))
truncate(self, sorted) ==
    IF TruthyInt(self.max_candidates)
    THEN SubSeq(sorted, 1, Min2(Len(sorted), Val(self.max_candidates)))
    ELSE sorted
build_candidates(self, rects) ==
    truncate(self, sort_by_area(build_candidates_loop(self, rects), <<>>))

\* _find_matching_candidates
find_matching_candidates(self, anchor_item, secondary_items, cands) ==
    SelectSeq(cands, LAMBDA cand :
        /\ text_in_roi(anchor_item, cand.anchor_roi)
        /\ (self.match_policy = POLICY_DOUBLE
                => roi_has_text(secondary_items, cand.anchor_roi)))

\* (c.fit_error, c.area) < (d.fit_error, d.area), as Python compares tuples
key_less(c, d) ==
    \/ RLt(c.fit_error, d.fit_error)
    \/ (c.fit_error = d.fit_error /\ area(c) < area(d))

\* mutant of select_min: the first match is selected
select_first(matches) == matches[1]
\* min(matches, key=lambda c: (c.fit_error, c.area)): the first minimal one
RECURSIVE select_min_loop(_, _, _)
select_min_loop(matches, k, best) ==
    IF k > Len(matches) THEN best
    ELSE select_min_loop(matches, k + 1,
                         IF key_less(matches[k], best) THEN matches[k] ELSE best)
select_min(matches) == select_min_loop(matches, 2, matches[1])

\* _to_frame_meta; the uuid4 frame_id is the position in the returned list
to_frame_meta(cand, id) ==
    [runtime |-> [frame_id |-> id,
                  outer_bbox |-> cand.bbox,
                  paper_variant_id |-> Some(cand.paper_variant_id),
                  sx |-> cand.sx,
                  sy |-> cand.sy,
                  geom_scale_factor |-> RDiv(RAdd(cand.sx, cand.sy), RInt(2)),
                  roi_profile_id |-> Some(cand.roi_profile_id)],
     titleblock |-> [engineering_no |-> None, internal_code |-> None,
                     external_code |-> None, page_total |-> None,
                     page_index |-> None]]

\* mutant of append_candidate_frame: used_candidates is not consulted
append_candidate_frame_unchecked(cand, st) ==
    [st EXCEPT !.used_candidates = @ \cup {candidate_key(cand)},
               !.frames = Append(@, to_frame_meta(cand, Len(@) + 1))]
\* _append_candidate_frame on st = [frames, used_candidates, selections]
append_candidate_frame(cand, st) ==
    LET key == candidate_key(cand)
    IN IF key \in st.used_candidates THEN st
       ELSE [st EXCEPT !.used_candidates = @ \cup {key},
                       !.frames = Append(@, to_frame_meta(cand, Len(@) + 1))]

\* the A4 expansion loop: every candidate of the cluster is appended
RECURSIVE append_cluster(_, _)
append_cluster(cluster, st) ==
    IF cluster = <<>> THEN st
    ELSE append_cluster(Tail(cluster), append_candidate_frame(Head(cluster), st))

\* the A4 expansion of locate_frames for the selected candidate
expand_a4(selected, a4_clusters, st) ==
    IF is_a4_candidate(selected)
    THEN append_cluster(cluster_lookup_get(a4_clusters, candidate_key(selected)), st)
    ELSE st

\* the part of the loop body of locate_frames after the selection;
\* st.selections records, for each primary item in turn, the candidate
\* selected for it (None: no match)
emit_selected(selected, a4_clusters, st) ==
    expand_a4(selected, a4_clusters,
              append_candidate_frame(selected,
                  [st EXCEPT !.selections = Append(@, Some(selected))]))

\* the loop body of locate_frames for one primary item, given its matches
locate_step(matches, a4_clusters, st) ==
    IF matches = <<>> THEN [st EXCEPT !.selections = Append(@, None)]
    ELSE emit_selected(select_min(matches), a4_clusters, st)

\* the loop of locate_frames over primary_items
RECURSIVE locate_loop(_, _, _, _, _, _)
locate_loop(self, primary_items, secondary_items, cands, a4_clusters, st) ==
    IF primary_items = <<>> THEN st
    ELSE locate_loop(self, Tail(primary_items), secondary_items, cands, a4_clusters,
                     locate_step(find_matching_candidates(self, Head(primary_items),
                                                          secondary_items, cands),
                                 a4_clusters, st))

\* locate_frames once the candidates are built
locate_among(self, primary_items, secondary_items, cands) ==
    IF cands = <<>> THEN [frames |-> <<>>, candidates |-> <<>>, selections |-> <<>>]
    ELSE [candidates |-> cands]
         @@ locate_loop(self, primary_items, secondary_items, cands,
                        build_a4_clusters(SelectSeq(cands, is_a4_candidate)),
                        [frames |-> <<>>, used_candidates |-> {}, selections |-> <<>>])

\* locate_frames: text_items is list(_iter_text_items(msp)), rects is what
\* find_rectangles(msp) returns; besides the returned frames the result keeps
\* the candidates and the selections for the claims
locate_frames(self, text_items_, rects) ==
    locate_among(self,
                 SelectSeq(text_items_, LAMBDA t : match_text(t.text, self.primary_text)),
                 SelectSeq(text_items_, LAMBDA t : match_text(t.text, self.secondary_text)),
                 build_candidates(self, rects))

\* ------------------------------------------------------------ AnchorValidator
\* self = [search_texts, profile_priority, roi_margin_percent, roi_profiles];
\* texts are the TEXT / MTEXT entities of the model space with their insertion
\* point, a text being the set of anchor strings _match_anchor_text finds in it

\* _match_anchor_text
match_anchor_text(self, text) ==
    \E k \in 1..Len(self.search_texts) : self.search_texts[k] \in text

\* _search_anchor_in_roi
search_anchor_in_roi(self, texts, roi) ==
    \E k \in 1..Len(texts) :
        /\ point_in_bbox(texts[k].x, texts[k].y, roi)
        /\ texts[k].text # {}
        /\ match_anchor_text(self, texts[k].text)

\* the list profile_candidates of validate
profile_candidates(self, roi_profile_id) ==
    LET first == IF TruthyStr(roi_profile_id) THEN <<Val(roi_profile_id)>> ELSE <<>>
    IN first \o SelectSeq(self.profile_priority,
                          LAMBDA p : \A k \in 1..Len(first) : first[k] # p)

\* AnchorValidator._restore_roi
validator_restore_roi(outer_bbox, rb_offset, sx, sy) ==
    LET dx_right == rb_offset[1]
        dx_left == rb_offset[2]
        dy_bottom == rb_offset[3]
        dy_top == rb_offset[4]
    IN [xmin |-> RSub(RInt(outer_bbox.xmax), RMul(RInt(dx_left), sx)),
        xmax |-> RSub(RInt(outer_bbox.xmax), RMul(RInt(dx_right), sx)),
        ymin |-> RAdd(RInt(outer_bbox.ymin), RMul(RInt(dy_bottom), sy)),
        ymax |-> RAdd(RInt(outer_bbox.ymin), RMul(RInt(dy_top), sy))]

\* AnchorValidator.validate
validate(self, texts, outer_bbox, sx, sy, roi_profile_id) ==
    LET ids == profile_candidates(self, roi_profile_id)
    IN \E k \in 1..Len(ids) :
        LET profile == get_roi_profile(self.roi_profiles, ids[k])
        IN /\ profile # None
           /\ LET rb_offset == fields_get(Val(profile), ANCHOR_FIELD)
              IN /\ rb_offset # None
                 /\ Val(rb_offset) # <<>>
                 /\ search_anchor_in_roi(self, texts,
                        expand_roi(validator_restore_roi(outer_bbox, Val(rb_offset), sx, sy),
                                   self.roi_margin_percent))

\* -------------------------------------------------------------- FrameDetector
\* self = [paper_variants]; a polyline is [closed, points], a point <<x, y>>
\* the local min_dim of _is_valid_frame_size, in mm
min_dim == 100
\* the 2% tolerance of _fit_paper_size
FitTolNum == 2
FitTolDen == 100

\* min(xs) / max(xs) over a non-empty list
ListMin(xs) == CHOOSE v \in {xs[k] : k \in 1..Len(xs)} : \A k \in 1..Len(xs) : v <= xs[k]
ListMax(xs) == CHOOSE v \in {xs[k] : k \in 1..Len(xs)} : \A k \in 1..Len(xs) : v >= xs[k]

\* _get_polyline_bbox
get_polyline_bbox(entity) ==
    IF Len(entity.points) < 4 THEN None
    ELSE LET xs == List([k \in 1..Len(entity.points) |-> entity.points[k][1]])
             ys == List([k \in 1..Len(entity.points) |-> entity.points[k][2]])
         IN Some(BBox(ListMin(xs), ListMin(ys), ListMax(xs), ListMax(ys)))

\* _is_valid_frame_size
is_valid_frame_size(bbox) == ~(width(bbox) < min_dim \/ height(bbox) < min_dim)

\* _rebuild_from_lines
rebuild_from_lines == <<>>

\* candidates.sort(key=width * height, reverse=True), stable
RECURSIVE insert_bbox_by_area(_, _)
insert_bbox_by_area(sorted, b) ==
    IF sorted = <<>> THEN <<b>>
    ELSE IF width(Head(sorted)) * height(Head(sorted)) >= width(b) * height(b)
         THEN <<Head(sorted)>> \o insert_bbox_by_area(Tail(sorted), b)
         ELSE <<b>> \o sorted
RECURSIVE sort_bboxes_by_area(_, _)
sort_bboxes_by_area(bs, acc) ==
    IF bs = <<>> THEN acc
    ELSE sort_bboxes_by_area(Tail(bs), insert_bbox_by_area(acc, Head(bs)))

\* _find_candidate_rectangles
RECURSIVE closed_polyline_boxes(_)
closed_polyline_boxes(entities) ==
    IF entities = <<>> THEN <<>>
    ELSE LET entity == Head(entities)
             bbox == get_polyline_bbox(entity)
         IN (IF entity.closed /\ bbox # None /\ is_valid_frame_size(Val(bbox))
             THEN <<Val(bbox)>> ELSE <<>>)
            \o closed_polyline_boxes(Tail(entities))
find_candidate_rectangles(entities) ==
    LET found == closed_polyline_boxes(entities)
    IN sort_bboxes_by_area(IF found = <<>> THEN rebuild_from_lines ELSE found, <<>>)

\* _verify_anchor
verify_anchor(texts, bbox) == TRUE

\* one variant of the loop of _fit_paper_size on st = [best_match, best_error]
fit_paper_size_step(bbox, variant, st) ==
    LET W_obs == width(bbox)
        H_obs == height(bbox)
        sx == Rat(W_obs, variant.W)
        sy == Rat(H_obs, variant.H)
        error == RDiv(RAbs(RSub(sx, sy)), RMaxEps(RMax(sx, sy)))
        st1 == IF RLt(error, Rat(FitTolNum, FitTolDen)) /\ RLt(error, st.best_error)
               THEN [best_error |-> error,
                     best_match |-> Some([variant_id |-> variant.id, sx |-> sx,
                                          sy |-> sy, profile |-> variant.profile])]
               ELSE st
        sx_rot == Rat(W_obs, variant.H)
        sy_rot == Rat(H_obs, variant.W)
        error_rot == RDiv(RAbs(RSub(sx_rot, sy_rot)), RMaxEps(RMax(sx_rot, sy_rot)))
    IN IF RLt(error_rot, Rat(FitTolNum, FitTolDen)) /\ RLt(error_rot, st1.best_error)
       THEN [best_error |-> error_rot,
             best_match |-> Some([variant_id |-> variant.id, sx |-> sx_rot,
                                  sy |-> sy_rot, profile |-> variant.profile])]
       ELSE st1

\* _fit_paper_size
RECURSIVE fit_paper_size_loop(_, _, _)
fit_paper_size_loop(bbox, variants, st) ==
    IF variants = <<>> THEN st.best_match
    ELSE fit_paper_size_loop(bbox, Tail(variants),
                             fit_paper_size_step(bbox, Head(variants), st))
fit_paper_size(self, bbox) ==
    fit_paper_size_loop(bbox, self.paper_variants,
                        [best_match |-> None, best_error |-> RInf])

\* _process_candidate: None, or the FrameMeta with frame_id id
process_candidate(self, texts, bbox, id) ==
    IF ~verify_anchor(texts, bbox) THEN None
    ELSE LET fit_result_ == fit_paper_size(self, bbox)
         IN IF fit_result_ = None THEN None
            ELSE LET m == Val(fit_result_)
                 IN Some([runtime |-> [frame_id |-> id,
                                       outer_bbox |-> bbox,
                                       paper_variant_id |-> Some(m.variant_id),
                                       sx |-> m.sx,
                                       sy |-> m.sy,
                                       geom_scale_factor |->
                                           RDiv(RAdd(m.sx, m.sy), RInt(2)),
                                       roi_profile_id |-> Some(m.profile)],
                          titleblock |-> [engineering_no |-> None,
                                          internal_code |-> None,
                                          external_code |-> None,
                                          page_total |-> None,
                                          page_index |-> None]])

\* detect_frames on a readable file: the loop over the candidates
RECURSIVE detect_loop(_, _, _, _)
detect_loop(self, texts, cands, acc) ==
    IF cands = <<>> THEN acc
    ELSE LET frame == process_candidate(self, texts, Head(cands), Len(acc) + 1)
         IN detect_loop(self, texts, Tail(cands),
                        IF frame # None THEN Append(acc, Val(frame)) ELSE acc)
detect_frames(self, entities, texts) ==
    detect_loop(self, texts, find_candidate_rectangles(entities), <<>>)

\* ---------------------------------------------------------------- str, re
\* A Python str is the sequence of its characters, each a one-character
\* string. The non-ASCII characters of the patterns are named:
GONG == "GONG"          \* "共"
ZHANG == "ZHANG"        \* "张"
DI == "DI"              \* "第"
TU == "TU"              \* "图", any other CJK character
FWCOLON == "FWCOLON"    \* "：", the full-width colon
NL == "NL"              \* "\n"

Digits == {"0", "1", "2", "3", "4", "5", "6", "7", "8", "9"}
DigitChars == <<"0", "1", "2", "3", "4", "5", "6", "7", "8", "9">>
LowerChars ==
    <<"a", "b", "c", "d", "e", "f", "g", "h", "i", "j", "k", "l", "m",
      "n", "o", "p", "q", "r", "s", "t", "u", "v", "w", "x", "y", "z">>
UpperChars ==
    <<"A", "B", "C", "D", "E", "F", "G", "H", "I", "J", "K", "L", "M",
      "N", "O", "P", "Q", "R", "S", "T", "U", "V", "W", "X", "Y", "Z">>
UpperLetters == {UpperChars[i] : i \in 1..26}
\* [A-Z0-9]
UpperAlnum == UpperLetters \cup Digits
\* \s
Spaces == {" ", NL}
\* [0-9Xx]
IndexChars == Digits \cup {"X", "x"}
\* "一" <= char <= "鿿"
CjkChars == {GONG, ZHANG, DI, TU}

\* str.upper() of one character
upper_char(c) ==
    IF \E i \in 1..26 : LowerChars[i] = c
    THEN UpperChars[CHOOSE i \in 1..26 : LowerChars[i] = c]
    ELSE c
\* str.upper()
upper(s) == List([i \in 1..Len(s) |-> upper_char(s[i])])

\* the characters of s that are in the class, in order
keep_chars(s, class) == SelectSeq(s, LAMBDA c : c \in class)
\* the characters of s that are not in the class, in order
drop_chars(s, class) == SelectSeq(s, LAMBDA c : c \notin class)

\* str.strip()
RECURSIVE lstrip(_)
lstrip(s) ==
    IF s # <<>> /\ Head(s) \in Spaces THEN lstrip(Tail(s)) ELSE s
RECURSIVE rstrip(_)
rstrip(s) ==
    IF s # <<>> /\ s[Len(s)] \in Spaces THEN rstrip(SubSeq(s, 1, Len(s) - 1)) ELSE s
strip(s) == rstrip(lstrip(s))

\* sep.join(parts)
RECURSIVE join(_, _)
join(sep, parts) ==
    IF parts = <<>> THEN <<>>
    ELSE IF Len(parts) = 1 THEN parts[1]
    ELSE parts[1] \o sep \o join(sep, Tail(parts))

\* int(s) of a string of decimal digits
digit_value(c) == (CHOOSE i \in 1..10 : DigitChars[i] = c) - 1
RECURSIVE int_of(_)
int_of(s) ==
    IF s = <<>> THEN 0
    ELSE 10 * int_of(SubSeq(s, 1, Len(s) - 1)) + digit_value(s[Len(s)])

\* the number of consecutive characters of the class in s from position i on
\* (a greedy class* of a pattern)
RECURSIVE span(_, _, _)
span(s, i, class) ==
    IF i <= Len(s) /\ s[i] \in class THEN 1 + span(s, i + 1, class) ELSE 0

\* s[i:i+n] is n characters of the class
run_of(s, i, n, class) ==
    /\ i + n - 1 <= Len(s)
    /\ \A k \in i..(i + n - 1) : s[k] \in class

\* no match of a pattern
NoMatch == [ok |-> FALSE, group1 |-> <<>>, group2 |-> <<>>, end |-> 0]

\* ------------------------------------------------------- TitleblockFields
\* TitleblockFields(): every field None
TitleblockFields ==
    [internal_code |-> None, external_code |-> None, album_code |-> None,
     engineering_no |-> None, subitem_no |-> None, paper_size_text |-> None,
     discipline |-> None, scale_text |-> None, scale_denominator |-> None,
     page_total |-> None, page_index |-> None, title_cn |-> None,
     title_en |-> None, revision |-> None, status |-> None, date |-> None]

\* ------------------------------------------------------ TitleblockExtractor
\* self = [roi_profiles]. A TEXT / MTEXT entity of the model space is
\* [insert, text]: insert is Some([x, y]), or None when the entity has no
\* insertion point; text is Some(str), or None when reading it raises.
\* An extracted text is [text, x, y].

\* the keys of profile.fields that _parse_fields reads
ROI_INTERNAL_CODE == "roi_internal_code"    \* "内部编码"
ROI_EXTERNAL_CODE == "roi_external_code"    \* "外部编码"
ROI_ENGINEERING_NO == "roi_engineering_no"  \* "工程号"
ROI_SUBITEM_NO == "roi_subitem_no"          \* "子项号"
ROI_PAPER_SIZE == "roi_paper_size"          \* "图幅"
ROI_DISCIPLINE == "roi_discipline"          \* "专业"
ROI_SCALE == "roi_scale"                    \* "比例"
ROI_PAGE_INFO == "roi_page_info"            \* "张数"
ROI_TITLE == "roi_title"                    \* "图纸标题"
ROI_REVISION == "roi_revision"              \* "版次"
ROI_STATUS == "roi_status"                  \* "状态"
ROI_DATE == "roi_date"                      \* "日期"
\* the profile used when the frame has none
DEFAULT_PROFILE == "BASE10"
\* the pattern r"^\d{4}$" of the engineering number
PATTERN_FOUR_DIGITS == "^\\d{4}$"
\* len(all_text) == 19
ExternalCodeLen == 19
\* _cluster_by_y(texts, tolerance=2.0)
LineTolerance == 2

\* $ at position i of s: the end, or just before a final newline
at_end(s, i) == i = Len(s) + 1 \/ (i = Len(s) /\ s[i] = NL)

\* mutant of titleblock_restore_roi: dx_right and dx_left change places
titleblock_restore_roi_swapped(outer_bbox, rb_offset, sx, sy) ==
    LET dx_right == rb_offset[1]
        dx_left == rb_offset[2]
        dy_bottom == rb_offset[3]
        dy_top == rb_offset[4]
    IN [xmin |-> RSub(RInt(outer_bbox.xmax), RMul(RInt(dx_right), sx)),
        xmax |-> RSub(RInt(outer_bbox.xmax), RMul(RInt(dx_left), sx)),
        ymin |-> RAdd(RInt(outer_bbox.ymin), RMul(RInt(dy_bottom), sy)),
        ymax |-> RAdd(RInt(outer_bbox.ymin), RMul(RInt(dy_top), sy))]
\* TitleblockExtractor._restore_roi
titleblock_restore_roi(outer_bbox, rb_offset, sx, sy) ==
    LET dx_right == rb_offset[1]
        dx_left == rb_offset[2]
        dy_bottom == rb_offset[3]
        dy_top == rb_offset[4]
    IN [xmin |-> RSub(RInt(outer_bbox.xmax), RMul(RInt(dx_left), sx)),
        xmax |-> RSub(RInt(outer_bbox.xmax), RMul(RInt(dx_right), sx)),
        ymin |-> RAdd(RInt(outer_bbox.ymin), RMul(RInt(dy_bottom), sy)),
        ymax |-> RAdd(RInt(outer_bbox.ymin), RMul(RInt(dy_top), sy))]

\* texts.sort(key=lambda t: -t["y"]): stable, highest y first
RECURSIVE insert_by_y(_, _)
insert_by_y(sorted, t) ==
    IF sorted = <<>> THEN <<t>>
    ELSE IF Head(sorted).y < t.y THEN <<t>> \o sorted
    ELSE <<Head(sorted)>> \o insert_by_y(Tail(sorted), t)
RECURSIVE sort_by_y(_, _)
sort_by_y(ts, acc) ==
    IF ts = <<>> THEN acc ELSE sort_by_y(Tail(ts), insert_by_y(acc, Head(ts)))

\* the loop of _extract_texts_in_roi: an entity without an insertion point,
\* outside the ROI, or whose text cannot be read is passed over
RECURSIVE texts_in_roi_loop(_, _)
texts_in_roi_loop(msp, roi) ==
    IF msp = <<>> THEN <<>>
    ELSE LET entity == Head(msp)
             rest == texts_in_roi_loop(Tail(msp), roi)
         IN IF entity.insert = None THEN rest
            ELSE LET x == Val(entity.insert).x
                     y == Val(entity.insert).y
                 IN IF /\ RLe(roi.xmin, RInt(x)) /\ RLe(RInt(x), roi.xmax)
                       /\ RLe(roi.ymin, RInt(y)) /\ RLe(RInt(y), roi.ymax)
                    THEN IF entity.text = None THEN rest
                         ELSE <<[text |-> strip(Val(entity.text)),
                                 x |-> x, y |-> y]>> \o rest
                    ELSE rest
\* _extract_texts_in_roi
extract_texts_in_roi(msp, roi) == sort_by_y(texts_in_roi_loop(msp, roi), <<>>)

\* re.match(r"^[A-Z0-9]{7}-[A-Z0-9]{5}(?:-\d{3})?$", t)
internal_code_match(t) ==
    /\ run_of(t, 1, 7, UpperAlnum)
    /\ Len(t) >= 8 /\ t[8] = "-"
    /\ run_of(t, 9, 5, UpperAlnum)
    /\ \/ at_end(t, 14)
       \/ /\ Len(t) >= 14 /\ t[14] = "-"
          /\ run_of(t, 15, 3, Digits)
          /\ at_end(t, 18)
\* _parse_internal_code
RECURSIVE parse_internal_code(_)
parse_internal_code(texts) ==
    IF texts = <<>> THEN None
    ELSE LET text == drop_chars(upper(Head(texts).text), {" "})
         IN IF internal_code_match(text) THEN Some(text)
            ELSE parse_internal_code(Tail(texts))

\* re r"DOC\.?\s*NO\.?" (IGNORECASE) anchored at i: the position after the
\* match, or 0 without one
match_header_at(s, i) ==
    IF /\ i + 2 <= Len(s)
       /\ upper_char(s[i]) = "D" /\ upper_char(s[i + 1]) = "O"
       /\ upper_char(s[i + 2]) = "C"
    THEN LET a == i + 3 + (IF i + 3 <= Len(s) /\ s[i + 3] = "." THEN 1 ELSE 0)
             b == a + span(s, a, Spaces)
         IN IF /\ b + 1 <= Len(s)
               /\ upper_char(s[b]) = "N" /\ upper_char(s[b + 1]) = "O"
            THEN b + 2 + (IF b + 2 <= Len(s) /\ s[b + 2] = "." THEN 1 ELSE 0)
            ELSE 0
    ELSE 0
\* re.sub(r"DOC\.?\s*NO\.?", "", s, flags=re.IGNORECASE) from position i on
RECURSIVE sub_header(_, _)
sub_header(s, i) ==
    IF i > Len(s) THEN <<>>
    ELSE LET e == match_header_at(s, i)
         IN IF e # 0 THEN sub_header(s, e)
            ELSE <<s[i]>> \o sub_header(s, i + 1)
\* "".join(t["text"] for t in texts)
concat_texts(texts) == join(<<>>, List([k \in 1..Len(texts) |-> texts[k].text]))
\* _parse_external_code
parse_external_code(texts) ==
    LET all_text == keep_chars(upper(sub_header(concat_texts(texts), 1)), UpperAlnum)
    IN IF Len(all_text) = ExternalCodeLen THEN Some(all_text) ELSE None

\* re.match(pattern, text) for the patterns _parse_simple_field is given
simple_match(pattern, text) ==
    IF pattern = PATTERN_FOUR_DIGITS
    THEN run_of(text, 1, 4, Digits) /\ at_end(text, 5)
    ELSE FALSE
\* _parse_simple_field
RECURSIVE parse_simple_field(_, _)
parse_simple_field(texts, pattern) ==
    IF texts = <<>> THEN None
    ELSE LET text == strip(Head(texts).text)
         IN IF text = <<>> THEN parse_simple_field(Tail(texts), pattern)
            ELSE IF pattern # None /\ ~simple_match(Val(pattern), text)
            THEN parse_simple_field(Tail(texts), pattern)
            ELSE Some(text)

\* re.match(r"^1[:：](\d+(?:\.\d+)?)$", t): group 1, or None
scale_match(t) ==
    IF Len(t) >= 3 /\ t[1] = "1" /\ t[2] \in {":", FWCOLON}
    THEN LET n == span(t, 3, Digits)
             a == 3 + n
             m == IF a <= Len(t) /\ t[a] = "." THEN span(t, a + 1, Digits) ELSE 0
             e == IF m >= 1 THEN a + 1 + m ELSE a
         IN IF n >= 1 /\ at_end(t, e) THEN Some(SubSeq(t, 3, e - 1)) ELSE None
    ELSE None
\* 10 ** n
RECURSIVE pow10(_)
pow10(n) == IF n = 0 THEN 1 ELSE 10 * pow10(n - 1)
\* float(s) of digits with an optional fraction
float_of(s) ==
    LET n == span(s, 1, Digits)
        frac == IF n < Len(s) THEN SubSeq(s, n + 2, Len(s)) ELSE <<>>
    IN Rat(int_of(SubSeq(s, 1, n) \o frac), pow10(Len(frac)))

\* the tail "(group)\s*张" of both patterns: the group is the n characters
\* from a on, and b is the position after the "\s*" that follows it
match_group_end(s, a, n, b) ==
    IF n >= 1 /\ b <= Len(s) /\ s[b] = ZHANG
    THEN [ok |-> TRUE, group1 |-> SubSeq(s, a, a + n - 1),
          group2 |-> <<>>, end |-> b + 1]
    ELSE NoMatch
match_group_len(s, a, n) ==
    match_group_end(s, a, n, a + n + span(s, a + n, Spaces))
match_group(s, a, chars) == match_group_len(s, a, span(s, a, chars))
\* re r"共\s*(\d+)\s*张" anchored at i
match_total_at(s, i) ==
    IF i > Len(s) \/ s[i] # GONG THEN NoMatch
    ELSE match_group(s, i + 1 + span(s, i + 1, Spaces), Digits)
\* re r"第\s*([0-9Xx]+)\s*张" anchored at i
match_index_at(s, i) ==
    IF i > Len(s) \/ s[i] # DI THEN NoMatch
    ELSE match_group(s, i + 1 + span(s, i + 1, Spaces), IndexChars)
\* the lazy ".*?" followed by the index pattern, from position j on: the
\* first position the index pattern matches at, "." not matching a newline
RECURSIVE lazy_index_from(_, _)
\* m is the index pattern tried at j
lazy_index_step(s, j, m) ==
    IF m.ok THEN m
    ELSE IF s[j] = NL THEN NoMatch
    ELSE lazy_index_from(s, j + 1)
lazy_index_from(s, j) ==
    IF j > Len(s) THEN NoMatch
    ELSE lazy_index_step(s, j, match_index_at(s, j))
\* the full match made of the match t of the total and the match m of the index
match_full_of(t, m) ==
    IF m.ok
    THEN [ok |-> TRUE, group1 |-> t.group1, group2 |-> m.group1, end |-> m.end]
    ELSE NoMatch
match_full_after(s, t) ==
    IF ~t.ok THEN NoMatch ELSE match_full_of(t, lazy_index_from(s, t.end))
\* re r"共\s*(\d+)\s*张.*?第\s*([0-9Xx]+)\s*张" anchored at i
match_full_at(s, i) == match_full_after(s, match_total_at(s, i))
\* the match m at a position if there is one, else the search further right
or_else(m, rest) == IF m.ok THEN m ELSE rest
\* re.search of the three patterns: the leftmost match
RECURSIVE search_full(_, _)
search_full(s, i) ==
    IF i > Len(s) THEN NoMatch
    ELSE or_else(match_full_at(s, i), search_full(s, i + 1))
RECURSIVE search_total(_, _)
search_total(s, i) ==
    IF i > Len(s) THEN NoMatch
    ELSE or_else(match_total_at(s, i), search_total(s, i + 1))
RECURSIVE search_index(_, _)
search_index(s, i) ==
    IF i > Len(s) THEN NoMatch
    ELSE or_else(match_index_at(s, i), search_index(s, i + 1))

\* idx = 1 if idx_str.upper() == "X" else int(idx_str): [raised, value];
\* int() raises ValueError on a string that is not all digits
page_index_of(idx_str) ==
    IF upper(idx_str) = <<"X">> THEN [raised |-> FALSE, value |-> 1]
    ELSE IF \A k \in 1..Len(idx_str) : idx_str[k] \in Digits
    THEN [raised |-> FALSE, value |-> int_of(idx_str)]
    ELSE [raised |-> TRUE, value |-> 0]

\* _parse_page_info: [raised, total, index]
\* the return of _parse_page_info with the total and the converted index idx
page_info_with_index(total, idx) ==
    IF idx.raised THEN [raised |-> TRUE, total |-> None, index |-> None]
    ELSE [raised |-> FALSE, total |-> total, index |-> Some(idx.value)]
\* the branch of the two separate patterns
page_info_separate(total, idx_match) ==
    IF idx_match.ok
    THEN page_info_with_index(total, page_index_of(idx_match.group1))
    ELSE [raised |-> FALSE, total |-> total, index |-> None]
\* total = int(total_match.group(1)) if total_match else None
page_total_of(total_match) ==
    IF total_match.ok THEN Some(int_of(total_match.group1)) ELSE None
\* the two branches, match being the search of the full pattern
page_info_of_match(all_text, match) ==
    IF match.ok
    THEN page_info_with_index(Some(int_of(match.group1)),
                              page_index_of(match.group2))
    ELSE page_info_separate(page_total_of(search_total(all_text, 1)),
                            search_index(all_text, 1))
page_info_of_text(all_text) ==
    page_info_of_match(all_text, search_full(all_text, 1))
parse_page_info(texts) ==
    page_info_of_text(join(<<" ">>, List([k \in 1..Len(texts) |-> texts[k].text])))

\* the loop of _cluster_by_y over the sorted texts:
\* st = [lines, current_line, current_y]
RECURSIVE cluster_by_y_loop(_, _)
cluster_by_y_loop(ts, st) ==
    IF ts = <<>> THEN Append(st.lines, st.current_line)
    ELSE LET text == Head(ts)
         IN IF Abs(text.y - st.current_y) <= LineTolerance
            THEN cluster_by_y_loop(Tail(ts),
                    [st EXCEPT !.current_line = Append(@, text)])
            ELSE cluster_by_y_loop(Tail(ts),
                    [lines |-> Append(st.lines, st.current_line),
                     current_line |-> <<text>>,
                     current_y |-> text.y])
\* _cluster_by_y
cluster_by_y(texts) ==
    IF texts = <<>> THEN <<>>
    ELSE LET sorted_texts == sort_by_y(texts, <<>>)
         IN cluster_by_y_loop(Tail(sorted_texts),
                [lines |-> <<>>, current_line |-> <<sorted_texts[1]>>,
                 current_y |-> sorted_texts[1].y])
\* _has_cjk
has_cjk(text) == \E k \in 1..Len(text) : text[k] \in CjkChars
\* _parse_title_bilingual: [title_cn, title_en]
parse_title_bilingual(texts) ==
    IF texts = <<>> THEN [title_cn |-> None, title_en |-> None]
    ELSE LET lines == cluster_by_y(texts)
             joined == List([k \in 1..Len(lines) |->
                 join(<<" ">>, List([j \in 1..Len(lines[k]) |-> lines[k][j].text]))])
             cn_lines == SelectSeq(joined, LAMBDA line : has_cjk(line))
             en_lines == SelectSeq(joined, LAMBDA line : ~has_cjk(line))
         IN [title_cn |-> IF cn_lines # <<>> THEN Some(join(<<" ">>, cn_lines))
                          ELSE None,
             title_en |-> IF en_lines # <<>> THEN Some(join(<<" ">>, en_lines))
                          ELSE None]

\* _parse_top_by_y
RECURSIVE parse_top_by_y(_)
parse_top_by_y(texts) ==
    IF texts = <<>> THEN None
    ELSE LET text == strip(Head(texts).text)
         IN IF text # <<>> THEN Some(text) ELSE parse_top_by_y(Tail(texts))

\* str.split("-")
RECURSIVE split_dash(_, _)
split_dash(s, part) ==
    IF s = <<>> THEN <<part>>
    ELSE IF Head(s) = "-" THEN <<part>> \o split_dash(Tail(s), <<>>)
    ELSE split_dash(Tail(s), Append(part, Head(s)))
\* _extract_album_code
extract_album_code(internal_code) ==
    LET parts == split_dash(internal_code, <<>>)
    IN IF Len(parts) >= 2 /\ Len(parts[2]) >= 2
       THEN Some(SubSeq(parts[2], Len(parts[2]) - 1, Len(parts[2])))
       ELSE None

\* raw_extracts.get(name, [])
raw_get(raw_extracts, name) ==
    IF name \in DOMAIN raw_extracts THEN raw_extracts[name] ELSE <<>>

\* the fields of _parse_fields that cannot raise
parse_fields_plain(raw_extracts) ==
    LET internal_code == parse_internal_code(raw_get(raw_extracts, ROI_INTERNAL_CODE))
        scale_text == parse_simple_field(raw_get(raw_extracts, ROI_SCALE), None)
        scale == IF scale_text # None /\ Val(scale_text) # <<>>
                 THEN scale_match(Val(scale_text)) ELSE None
        title == parse_title_bilingual(raw_get(raw_extracts, ROI_TITLE))
    IN [internal_code |-> internal_code,
        external_code |-> parse_external_code(raw_get(raw_extracts, ROI_EXTERNAL_CODE)),
        album_code |-> IF internal_code # None /\ Val(internal_code) # <<>>
                       THEN extract_album_code(Val(internal_code)) ELSE None,
        engineering_no |-> parse_simple_field(
            raw_get(raw_extracts, ROI_ENGINEERING_NO), Some(PATTERN_FOUR_DIGITS)),
        subitem_no |-> parse_simple_field(raw_get(raw_extracts, ROI_SUBITEM_NO), None),
        paper_size_text |-> parse_simple_field(raw_get(raw_extracts, ROI_PAPER_SIZE), None),
        discipline |-> parse_simple_field(raw_get(raw_extracts, ROI_DISCIPLINE), None),
        scale_text |-> scale_text,
        scale_denominator |-> IF scale # None THEN Some(float_of(Val(scale))) ELSE None,
        page_total |-> None,
        page_index |-> None,
        title_cn |-> title.title_cn,
        title_en |-> title.title_en,
        revision |-> parse_top_by_y(raw_get(raw_extracts, ROI_REVISION)),
        status |-> parse_top_by_y(raw_get(raw_extracts, ROI_STATUS)),
        date |-> parse_top_by_y(raw_get(raw_extracts, ROI_DATE))]

\* the TitleblockFields of _parse_fields, page being what _parse_page_info
\* returned
fields_with_page(raw_extracts, page) ==
    IF page.raised THEN [raised |-> TRUE, fields |-> TitleblockFields]
    ELSE [raised |-> FALSE,
          fields |-> [parse_fields_plain(raw_extracts) EXCEPT
                         !.page_total = page.total,
                         !.page_index = page.index]]
\* the fields of fresh, each None replaced by the field the frame has
kept_fields(frame, fresh) ==
    IF fresh.raised THEN fresh
    ELSE [raised |-> FALSE,
          fields |-> [k \in DOMAIN fresh.fields |->
                         IF fresh.fields[k] = None THEN frame.titleblock[k]
                         ELSE fresh.fields[k]]]

\* mutant of parse_fields: a field for which nothing is parsed keeps the value
\* the frame already has
parse_fields_keep(raw_extracts, frame) ==
    kept_fields(frame,
        fields_with_page(raw_extracts,
            parse_page_info(raw_get(raw_extracts, ROI_PAGE_INFO))))
\* _parse_fields: [raised, fields]; the frame is not read
parse_fields(raw_extracts, frame) ==
    fields_with_page(raw_extracts,
        parse_page_info(raw_get(raw_extracts, ROI_PAGE_INFO)))

\* x or 1.0 of an Optional[float]
or_one(o) == IF o # None /\ Val(o).n # 0 THEN Val(o) ELSE RInt(1)

\* the ROI texts of every field of the profile: raw_extracts
extract_raw(msp, profile, frame) ==
    [field_name \in DOMAIN profile.fields |->
        extract_texts_in_roi(msp,
            titleblock_restore_roi(frame.runtime.outer_bbox,
                                   profile.fields[field_name],
                                   or_one(frame.runtime.sx),
                                   or_one(frame.runtime.sy)))]

\* frame.titleblock = titleblock; frame.raw_extracts = raw_extracts, unless
\* _parse_fields raised
frame_of_titleblock(frame, raw_extracts, titleblock) ==
    IF titleblock.raised THEN [raised |-> TRUE, frame |-> frame]
    ELSE [raised |-> FALSE,
          frame |-> [frame EXCEPT !.titleblock = titleblock.fields,
                                  !.raw_extracts = raw_extracts]]
frame_of_raw_extracts(frame, raw_extracts) ==
    frame_of_titleblock(frame, raw_extracts, parse_fields(raw_extracts, frame))
\* the rest of extract_fields once the document is open and the profile found
extract_with_profile(msp, profile, frame) ==
    frame_of_raw_extracts(frame, extract_raw(msp, profile, frame))

\* profile is None for a profile id the specification does not have
extract_of_profile(dxf, frame, profile) ==
    IF profile = None THEN [raised |-> TRUE, frame |-> frame]
    ELSE extract_with_profile(Val(dxf), Val(profile), frame)
\* extract_fields: [raised, frame]; dxf is Some(model space), or None for a
\* file that is missing or cannot be parsed
extract_fields(self, dxf, frame) ==
    IF dxf = None THEN [raised |-> TRUE, frame |-> frame]
    ELSE extract_of_profile(dxf, frame,
             get_roi_profile(self.roi_profiles,
                 IF TruthyStr(frame.runtime.roi_profile_id)
                 THEN Val(frame.runtime.roi_profile_id)
                 ELSE DEFAULT_PROFILE))

\* ------------------------------------------------------------ CandidateFinder
\* self = [min_dim, coord_tol]; coordinates are floats, here exact rationals.
\* An entity of the model space is
\*   [dxftype, readable, closed, is_closed, points, start, end]:
\* readable = FALSE when reading its geometry raises (get_points() of a
\* polyline, dxf.start / dxf.end of a line); closed is the flag of an
\* LWPOLYLINE, is_closed the attribute of a POLYLINE (None when it has none);
\* points, start and end are integer pairs <<x, y>>
DEFAULT_MIN_DIM == 100
COORD_TOL == Rat(1, 2)
\* _sin_tol ** 2 = sin(radians(1.0)) ** 2 = 0.000304586..., to seven places
SinTolSqNum == 3046
SinTolSqDen == 10000000

\* BBox.width, BBox.height of a BBox of floats
float_width(b) == RSub(b.xmax, b.xmin)
float_height(b) == RSub(b.ymax, b.ymin)
float_area(b) == RMul(float_width(b), float_height(b))

\* msp.query(dxftype): the entities of the type, in the order of the file
RECURSIVE query(_, _)
query(msp, dxftype) ==
    IF msp = <<>> THEN <<>>
    ELSE (IF Head(msp).dxftype = dxftype THEN <<Head(msp)>> ELSE <<>>)
            \o query(Tail(msp), dxftype)

\* sorted(values) of floats
RECURSIVE insert_float(_, _)
insert_float(sorted, v) ==
    IF sorted = <<>> THEN <<v>>
    ELSE IF RLe(Head(sorted), v) THEN <<Head(sorted)>> \o insert_float(Tail(sorted), v)
         ELSE <<v>> \o sorted
RECURSIVE sorted_floats(_)
sorted_floats(vs) ==
    IF vs = <<>> THEN <<>>
    ELSE insert_float(sorted_floats(SubSeq(vs, 1, Len(vs) - 1)), vs[Len(vs)])
RECURSIVE float_sum(_)
float_sum(vs) == IF vs = <<>> THEN RInt(0) ELSE RAdd(Head(vs), float_sum(Tail(vs)))
float_min(vs) == sorted_floats(vs)[1]
float_max(vs) == sorted_floats(vs)[Len(vs)]

\* _cluster_coords: the loop over the sorted values[1:], clusters a list of
\* lists; a value joins the last cluster when it is within coord_tol of the
\* last value of that cluster
RECURSIVE cluster_coords_loop(_, _, _, _)
cluster_coords_loop(self, values, k, cls) ==
    IF k > Len(values) THEN cls
    ELSE LET last == cls[Len(cls)]
             v == values[k]
         IN IF RLe(RAbs(RSub(v, last[Len(last)])), self.coord_tol)
            THEN cluster_coords_loop(self, values, k + 1,
                    [cls EXCEPT ![Len(cls)] = Append(last, v)])
            ELSE cluster_coords_loop(self, values, k + 1, Append(cls, <<v>>))
cluster_coords(self, values) ==
    IF values = <<>> THEN <<>>
    ELSE LET vs == sorted_floats(values)
             cls == cluster_coords_loop(self, vs, 2, <<<<vs[1]>>>>)
         IN List([c \in 1..Len(cls) |-> RDiv(float_sum(cls[c]), RInt(Len(cls[c])))])

\* _is_axis_aligned
is_axis_aligned(self, vertices) ==
    LET xs == cluster_coords(self, List([k \in 1..Len(vertices) |-> RInt(vertices[k][1])]))
        ys == cluster_coords(self, List([k \in 1..Len(vertices) |-> RInt(vertices[k][2])]))
    IN Len(xs) = 2 /\ Len(ys) = 2

\* _extract_bbox: None, or the BBox; an exception of get_points() is caught
extract_bbox(self, entity) ==
    IF ~entity.readable THEN None
    ELSE LET vertices == entity.points
         IN IF Len(vertices) < 4 THEN None
            ELSE IF ~is_axis_aligned(self, vertices) THEN None
            ELSE LET xs == List([k \in 1..Len(vertices) |-> RInt(vertices[k][1])])
                     ys == List([k \in 1..Len(vertices) |-> RInt(vertices[k][2])])
                 IN Some(BBox(float_min(xs), float_min(ys), float_max(xs), float_max(ys)))

\* _is_valid_size
is_valid_size(self, bbox) ==
    /\ RLe(RInt(self.min_dim), float_width(bbox))
    /\ RLe(RInt(self.min_dim), float_height(bbox))

\* abs(d) <= coord_tol or abs(d) / length <= _sin_tol, for the component d of
\* a segment (dx, dy) of positive length; the second test on the squares
is_along_axis(self, d, dx, dy) ==
    \/ RLe(RInt(Abs(d)), self.coord_tol)
    \/ d * d <= (SinTolSqNum * (dx * dx + dy * dy)) \div SinTolSqDen

\* the first loop of _rebuild_from_lines over msp.query("LINE"):
\* acc = [raised, horizontal, vertical], segments are [coord, start, end]
RECURSIVE classify_lines(_, _, _)
classify_lines(self, lines, acc) ==
    IF lines = <<>> THEN acc
    ELSE LET entity == Head(lines)
         IN IF ~entity.readable THEN [acc EXCEPT !.raised = TRUE]
            ELSE LET x1 == entity.start[1]
                     y1 == entity.start[2]
                     x2 == entity.end[1]
                     y2 == entity.end[2]
                     dx == x2 - x1
                     dy == y2 - y1
                 IN IF dx = 0 /\ dy = 0 THEN classify_lines(self, Tail(lines), acc)
                    ELSE IF is_along_axis(self, dy, dx, dy)
                    THEN classify_lines(self, Tail(lines),
                            [acc EXCEPT !.horizontal = Append(@,
                                [coord |-> Rat(y1 + y2, 2),
                                 start |-> RInt(Min2(x1, x2)),
                                 end |-> RInt(Max2(x1, x2))])])
                    ELSE IF is_along_axis(self, dx, dx, dy)
                    THEN classify_lines(self, Tail(lines),
                            [acc EXCEPT !.vertical = Append(@,
                                [coord |-> Rat(x1 + x2, 2),
                                 start |-> RInt(Min2(y1, y2)),
                                 end |-> RInt(Max2(y1, y2))])])
                    ELSE classify_lines(self, Tail(lines), acc)

\* segments.sort(key=lambda s: s[0]): a stable ascending sort
RECURSIVE insert_by_coord(_, _)
insert_by_coord(sorted, s) ==
    IF sorted = <<>> THEN <<s>>
    ELSE IF RLe(Head(sorted).coord, s.coord)
         THEN <<Head(sorted)>> \o insert_by_coord(Tail(sorted), s)
         ELSE <<s>> \o sorted
RECURSIVE sort_by_coord(_)
sort_by_coord(ss) ==
    IF ss = <<>> THEN <<>>
    ELSE insert_by_coord(sort_by_coord(SubSeq(ss, 1, Len(ss) - 1)), ss[Len(ss)])

\* sorted((min(a, b), max(a, b)) for a, b in segments): tuples in
\* lexicographic order
interval_le(a, b) == RLt(a[1], b[1]) \/ (a[1] = b[1] /\ RLe(a[2], b[2]))
RECURSIVE insert_interval(_, _)
insert_interval(sorted, s) ==
    IF sorted = <<>> THEN <<s>>
    ELSE IF interval_le(Head(sorted), s)
         THEN <<Head(sorted)>> \o insert_interval(Tail(sorted), s)
         ELSE <<s>> \o sorted
RECURSIVE sorted_intervals(_)
sorted_intervals(ss) ==
    IF ss = <<>> THEN <<>>
    ELSE insert_interval(sorted_intervals(SubSeq(ss, 1, Len(ss) - 1)),
            LET s == ss[Len(ss)]
            IN IF RLe(s[1], s[2]) THEN s ELSE <<s[2], s[1]>>)

\* _merge_intervals: the loop over sorted_segments[1:]
RECURSIVE merge_intervals_loop(_, _, _, _)
\* mutant of merge_intervals_loop: the next interval is merged into the last
\* one whatever the distance between them
merge_intervals_loop_any_gap(self, ss, k, merged) ==
    IF k > Len(ss) THEN merged
    ELSE merge_intervals_loop(self, ss, k + 1,
            [merged EXCEPT ![Len(merged)] =
                <<merged[Len(merged)][1], RMax(merged[Len(merged)][2], ss[k][2])>>])
merge_intervals_loop(self, ss, k, merged) ==
    IF k > Len(ss) THEN merged
    ELSE LET last == merged[Len(merged)]
         IN IF RLe(ss[k][1], RAdd(last[2], self.coord_tol))
            THEN merge_intervals_loop(self, ss, k + 1,
                    [merged EXCEPT ![Len(merged)] = <<last[1], RMax(last[2], ss[k][2])>>])
            ELSE merge_intervals_loop(self, ss, k + 1, Append(merged, ss[k]))
merge_intervals(self, segments) ==
    IF segments = <<>> THEN <<>>
    ELSE LET ss == sorted_intervals(segments)
         IN merge_intervals_loop(self, ss, 2, <<ss[1]>>)

\* _cluster_segments: the loop over the sorted segments, clusters a list of
\* [coord, count, segments] with coord the running mean
RECURSIVE cluster_segments_loop(_, _, _, _)
cluster_segments_loop(self, segments, k, cls) ==
    IF k > Len(segments) THEN cls
    ELSE LET s == segments[k]
         IN IF cls = <<>> \/ RLt(self.coord_tol, RAbs(RSub(s.coord, cls[Len(cls)].coord)))
            THEN cluster_segments_loop(self, segments, k + 1,
                    Append(cls, [coord |-> s.coord, count |-> 1,
                                 segments |-> <<<<s.start, s.end>>>>]))
            ELSE LET cluster == cls[Len(cls)]
                     count == cluster.count + 1
                 IN cluster_segments_loop(self, segments, k + 1,
                        [cls EXCEPT ![Len(cls)] =
                            [coord |-> RDiv(RAdd(RMul(cluster.coord, RInt(cluster.count)),
                                                 s.coord), RInt(count)),
                             count |-> count,
                             segments |-> Append(cluster.segments, <<s.start, s.end>>)]])
\* the dict merged, as the list of its items [coord, intervals]: the clusters
\* are built in ascending order of coord and no two have the same coord, so
\* the list is in the order of sorted(merged.keys())
cluster_segments(self, segments) ==
    IF segments = <<>> THEN <<>>
    ELSE LET cls == cluster_segments_loop(self, sort_by_coord(segments), 1, <<>>)
         IN List([c \in 1..Len(cls) |->
                [coord |-> cls[c].coord,
                 intervals |-> merge_intervals(self, cls[c].segments)]])

\* _has_edge
has_edge(self, intervals, start, end) ==
    \E k \in 1..Len(intervals) :
        /\ RLe(intervals[k][1], RAdd(start, self.coord_tol))
        /\ RLe(RSub(end, self.coord_tol), intervals[k][2])

\* round(x, 3)
round3(x) == Rat((2000 * x.n + x.d) \div (2 * x.d), 1000)

\* the pairs (i, j), i < j <= n, in the order of the nested loops
\* "for i, a in enumerate(vs): for b in vs[i + 1:]"
RECURSIVE index_pairs_from(_, _, _)
index_pairs_from(i, j, n) ==
    IF i >= n THEN <<>>
    ELSE IF j > n THEN index_pairs_from(i + 1, i + 2, n)
    ELSE <<<<i, j>>>> \o index_pairs_from(i, j + 1, n)
index_pairs(n) == index_pairs_from(1, 2, n)

\* the nested loops of _rebuild_from_lines over the pairs of ys and of xs:
\* acc = [rectangles, seen]
RECURSIVE rebuild_loop(_, _, _, _, _, _, _)
rebuild_loop(self, h_segments, v_segments, yp, xp, k, acc) ==
    IF k > Len(yp) * Len(xp) THEN acc.rectangles
    ELSE LET ypair == yp[((k - 1) \div Len(xp)) + 1]
             xpair == xp[((k - 1) % Len(xp)) + 1]
             y1 == h_segments[ypair[1]].coord
             y2 == h_segments[ypair[2]].coord
             x1 == v_segments[xpair[1]].coord
             x2 == v_segments[xpair[2]].coord
             key == <<round3(x1), round3(y1), round3(x2), round3(y2)>>
         IN IF \/ RLt(RSub(y2, y1), RInt(self.min_dim))
               \/ RLt(RSub(x2, x1), RInt(self.min_dim))
               \/ ~has_edge(self, h_segments[ypair[1]].intervals, x1, x2)
               \/ ~has_edge(self, h_segments[ypair[2]].intervals, x1, x2)
               \/ ~has_edge(self, v_segments[xpair[1]].intervals, y1, y2)
               \/ ~has_edge(self, v_segments[xpair[2]].intervals, y1, y2)
               \/ key \in acc.seen
            THEN rebuild_loop(self, h_segments, v_segments, yp, xp, k + 1, acc)
            ELSE rebuild_loop(self, h_segments, v_segments, yp, xp, k + 1,
                    [rectangles |-> Append(acc.rectangles, BBox(x1, y1, x2, y2)),
                     seen |-> acc.seen \cup {key}])

\* _rebuild_from_lines: [raised, rectangles]; nothing catches an exception
\* of entity.dxf.start or entity.dxf.end
finder_rebuild_from_lines(self, msp) ==
    LET lines == classify_lines(self, query(msp, "LINE"),
                    [raised |-> FALSE, horizontal |-> <<>>, vertical |-> <<>>])
    IN IF lines.raised THEN [raised |-> TRUE, rectangles |-> <<>>]
       ELSE LET h_segments == cluster_segments(self, lines.horizontal)
                v_segments == cluster_segments(self, lines.vertical)
            IN [raised |-> FALSE,
                rectangles |-> rebuild_loop(self, h_segments, v_segments,
                                  index_pairs(Len(h_segments)),
                                  index_pairs(Len(v_segments)), 1,
                                  [rectangles |-> <<>>, seen |-> {}])]

\* the loops of find_rectangles over the polylines of one type: the flag is
\* entity.closed of an LWPOLYLINE, getattr(entity, "is_closed", False) of a
\* POLYLINE
RECURSIVE polyline_candidates(_, _)
polyline_candidates(self, entities) ==
    IF entities = <<>> THEN <<>>
    ELSE LET entity == Head(entities)
             is_closed == IF entity.dxftype = "LWPOLYLINE" THEN entity.closed
                          ELSE (entity.is_closed # None /\ Val(entity.is_closed))
             bbox == extract_bbox(self, entity)
         IN (IF is_closed /\ bbox # None /\ is_valid_size(self, Val(bbox))
             THEN <<Val(bbox)>> ELSE <<>>)
            \o polyline_candidates(self, Tail(entities))

\* candidates.sort(key=lambda b: b.width * b.height, reverse=True): a stable
\* descending sort
RECURSIVE insert_rect_by_area(_, _)
insert_rect_by_area(sorted, b) ==
    IF sorted = <<>> THEN <<b>>
    ELSE IF RLe(float_area(b), float_area(Head(sorted)))
         THEN <<Head(sorted)>> \o insert_rect_by_area(Tail(sorted), b)
         ELSE <<b>> \o sorted
RECURSIVE sort_rects_by_area(_)
\* mutant of sort_rects_by_area: the candidates stay in the order they were found
sort_rects_by_area_skipped(bs) == bs
sort_rects_by_area(bs) ==
    IF bs = <<>> THEN <<>>
    ELSE insert_rect_by_area(sort_rects_by_area(SubSeq(bs, 1, Len(bs) - 1)), bs[Len(bs)])

\* find_rectangles: [raised, rectangles]
find_rectangles(self, msp) ==
    LET cands == polyline_candidates(self, query(msp, "LWPOLYLINE"))
                        \o polyline_candidates(self, query(msp, "POLYLINE"))
    IN IF cands = <<>>
       THEN LET rebuilt == finder_rebuild_from_lines(self, msp)
            IN IF rebuilt.raised THEN [raised |-> TRUE, rectangles |-> <<>>]
               ELSE [raised |-> FALSE, rectangles |-> sort_rects_by_area(rebuilt.rectangles)]
       ELSE [raised |-> FALSE, rectangles |-> sort_rects_by_area(cands)]

\* ----------------------------------------------------------------------- Job
\* JobStatus
QUEUED == "queued"
RUNNING == "running"
SUCCEEDED == "succeeded"
FAILED == "failed"
CANCELLED == "cancelled"
\* a Job is [status, progress : [stage, percent, message], flags, errors,
\* started_at, finished_at]; a datetime is the number of steps since the
\* call of execute, negative before it
\* mutant of add_flag: the flag is appended without the membership test
add_flag_unchecked(j, flag) == [j EXCEPT !.flags = Append(@, flag)]
\* Job.add_flag
add_flag(j, flag) ==
    IF \E k \in 1..Len(j.flags) : j.flags[k] = flag THEN j
    ELSE [j EXCEPT !.flags = Append(@, flag)]
\* FrameMeta.add_flag
frame_add_flag(f, flag) ==
    IF \E k \in 1..Len(f.runtime.flags) : f.runtime.flags[k] = flag THEN f
    ELSE [f EXCEPT !.runtime.flags = Append(@, flag)]
\* Job.mark_running(stage="INGEST"); now is datetime.now()
mark_running(j, now) ==
    [j EXCEPT !.status = RUNNING, !.started_at = Some(now), !.progress.stage = "INGEST"]
\* Job.mark_succeeded
mark_succeeded(j, now) ==
    [j EXCEPT !.status = SUCCEEDED, !.finished_at = Some(now), !.progress.percent = 100]
\* mutant of mark_failed: the error is not recorded
mark_failed_unrecorded(j, error, now) ==
    [j EXCEPT !.status = FAILED, !.finished_at = Some(now)]
\* Job.mark_failed
mark_failed(j, error, now) ==
    [j EXCEPT !.status = FAILED, !.finished_at = Some(now), !.errors = Append(@, error)]

\* JobManager.cancel_job on the job get_job found: [job, returned];
\* update_job caches and writes the job, which changes no field of it
cancel_job(j) ==
    IF j.status \in {QUEUED, RUNNING}
    THEN [job |-> [j EXCEPT !.status = CANCELLED], returned |-> TRUE]
    ELSE [job |-> j, returned |-> FALSE]

\* ------------------------------------------------------------ PipelineStage
PipelineStage(stage_name, from, to) ==
    [name |-> stage_name, progress_start |-> from, progress_end |-> to]
DELIVERABLE_STAGES ==
    <<PipelineStage("INGEST", 0, 5),
      PipelineStage("CONVERT_DWG_TO_DXF", 5, 15),
      PipelineStage("DETECT_FRAMES", 15, 25),
      PipelineStage("VERIFY_FRAMES_BY_ANCHOR", 25, 30),
      PipelineStage("SCALE_FIT_AND_CHECK", 30, 35),
      PipelineStage("EXTRACT_TITLEBLOCK_FIELDS", 35, 50),
      PipelineStage("A4_MULTIPAGE_GROUPING", 50, 55),
      PipelineStage("SPLIT_AND_RENAME", 55, 70),
      PipelineStage("EXPORT_PDF_AND_DWG", 70, 80),
      PipelineStage("GENERATE_DOCS", 80, 95),
      PipelineStage("PACKAGE_ZIP", 95, 100)>>

\* --------------------------------------------------------- PipelineExecutor
\* the messages and flags built with f-strings, as [text, argument]
MSG_JOB_STARTED == "JOB_STARTED"          \* "任务开始"
MSG_JOB_FAILED == "JOB_FAILED"            \* "任务失败: {e}"
MSG_STAGE_STARTED == "STAGE_STARTED"      \* "开始阶段: {stage.name}"
MSG_STAGE_DONE == "STAGE_DONE"            \* "完成阶段: {stage.name}"
FLAG_STAGE_FAILED == "STAGE_FAILED"       \* "阶段失败:{stage.name}"
FLAG_CONVERT_FAILED == "CONVERT_FAILED"   \* "转换失败:{dwg_file.name}"
FLAG_DETECT_FAILED == "DETECT_FAILED"     \* "检测失败:{dxf_path.name}"
FLAG_COVER_FAILED == "COVER_FAILED"       \* "封面生成失败"
fmt(text, arg) == <<text, arg>>

\* _update_progress(job, message=..., force=True): the message is set and the
\* job is written to job.json, which changes no field of the job
update_progress(j, message) == [j EXCEPT !.progress.message = message]

\* the flags a stage handler may add to the job for an item that failed
\* (job.add_flag in _stage_convert, _stage_detect_frames, _stage_generate_docs)
handler_flags(stage) ==
    IF stage.name = "CONVERT_DWG_TO_DXF" THEN <<fmt(FLAG_CONVERT_FAILED, "a.dwg")>>
    ELSE IF stage.name = "DETECT_FRAMES" THEN <<fmt(FLAG_DETECT_FAILED, "a.dxf")>>
    ELSE IF stage.name = "GENERATE_DOCS" THEN <<fmt(FLAG_COVER_FAILED, "")>>
    ELSE <<>>
\* the job after the handler of a stage added the flags in added
RECURSIVE handled(_, _)
handled(j, added) ==
    IF added = <<>> THEN j ELSE handled(add_flag(j, Head(added)), Tail(added))

\* _execute_stage up to the call of the handler
stage_entered(j, stage) ==
    update_progress([j EXCEPT !.progress.stage = stage.name,
                              !.progress.percent = stage.progress_start],
                    fmt(MSG_STAGE_STARTED, stage.name))
\* _execute_stage when the handler returned
stage_returned(j, stage, added) ==
    update_progress([handled(stage_entered(j, stage), added) EXCEPT
                        !.progress.percent = stage.progress_end],
                    fmt(MSG_STAGE_DONE, stage.name))
\* _execute_stage when the handler raised e (the flag, then raise), and the
\* except branch of execute: mark_failed(str(e)), the message, raise
stage_raised(j, stage, added, e, now) ==
    update_progress(
        mark_failed(add_flag(handled(stage_entered(j, stage), added),
                             fmt(FLAG_STAGE_FAILED, stage.name)),
                    e, now),
        fmt(MSG_JOB_FAILED, e))

\* ------------------------------------------------- the per-item stage handlers
\* An item is a DWG file, a DXF file or a frame: [name, raises, runtime], where
\* raises says whether the call made for it (oda.dwg_to_dxf, detect_frames,
\* extract_fields) raises. st = [job, called, frames, raised]: called lists
\* the items the call was made for.
FLAG_EXTRACT_FAILED == "EXTRACT_FAILED"   \* "提取失败"
\* whether job.progress.details can be read: JobProgress declares the fields
\* stage, percent, current_file and message
has_details(j) == "details" \in DOMAIN j.progress
stage_state(j, items) == [job |-> j, called |-> <<>>, frames |-> items, raised |-> FALSE]
\* job.progress.details.update({...}) before the loop of a handler
details_reset(st) == IF has_details(st.job) THEN st ELSE [st EXCEPT !.raised = TRUE]
\* the body of the loop of _stage_convert for dwg_file: _update_progress with
\* details, oda.dwg_to_dxf, the counters; except Exception: job.add_flag
convert_one(st, dwg_file) ==
    IF ~has_details(st.job)
    THEN [st EXCEPT !.job = add_flag(@, fmt(FLAG_CONVERT_FAILED, dwg_file.name))]
    ELSE IF dwg_file.raises
    THEN [st EXCEPT !.called = Append(@, dwg_file.name),
                    !.job = add_flag(@, fmt(FLAG_CONVERT_FAILED, dwg_file.name))]
    ELSE [st EXCEPT !.called = Append(@, dwg_file.name)]
RECURSIVE convert_files_loop(_, _, _)
convert_files_loop(st, dwg_files, k) ==
    IF k > Len(dwg_files) THEN st
    ELSE convert_files_loop(convert_one(st, dwg_files[k]), dwg_files, k + 1)
\* _stage_convert
stage_convert(j, dwg_files) ==
    IF details_reset(stage_state(j, dwg_files)).raised
    THEN details_reset(stage_state(j, dwg_files))
    ELSE convert_files_loop(stage_state(j, dwg_files), dwg_files, 1)
\* the body of the loop of _stage_detect_frames for dxf_path
detect_one(st, dxf_path) ==
    IF ~has_details(st.job)
    THEN [st EXCEPT !.job = add_flag(@, fmt(FLAG_DETECT_FAILED, dxf_path.name))]
    ELSE IF dxf_path.raises
    THEN [st EXCEPT !.called = Append(@, dxf_path.name),
                    !.job = add_flag(@, fmt(FLAG_DETECT_FAILED, dxf_path.name))]
    ELSE [st EXCEPT !.called = Append(@, dxf_path.name)]
RECURSIVE detect_files_loop(_, _, _)
detect_files_loop(st, dxf_files, k) ==
    IF k > Len(dxf_files) THEN st
    ELSE detect_files_loop(detect_one(st, dxf_files[k]), dxf_files, k + 1)
\* _stage_detect_frames
stage_detect_frames(j, dxf_files) ==
    IF details_reset(stage_state(j, dxf_files)).raised
    THEN details_reset(stage_state(j, dxf_files))
    ELSE detect_files_loop(stage_state(j, dxf_files), dxf_files, 1)
\* the body of the loop of _stage_extract_fields for the frame at position i
extract_one(st, i) ==
    IF ~has_details(st.job)
    THEN [st EXCEPT !.frames[i] = frame_add_flag(@, FLAG_EXTRACT_FAILED)]
    ELSE IF st.frames[i].raises
    THEN [st EXCEPT !.called = Append(@, st.frames[i].name),
                    !.frames[i] = frame_add_flag(@, FLAG_EXTRACT_FAILED)]
    ELSE [st EXCEPT !.called = Append(@, st.frames[i].name)]
RECURSIVE extract_loop(_, _)
extract_loop(st, i) ==
    IF i > Len(st.frames) THEN st ELSE extract_loop(extract_one(st, i), i + 1)
\* _stage_extract_fields
stage_extract_fields(j, frames_) ==
    IF details_reset(stage_state(j, frames_)).raised
    THEN details_reset(stage_state(j, frames_))
    ELSE extract_loop(stage_state(j, frames_), 1)
\* _execute_stage after the handler left st: the end of the stage, or the
\* stage flag and the raise, which execute answers with mark_failed
stage_left(st, stage, now) ==
    [stage |-> stage.name, raised |-> st.raised, called |-> st.called,
     frames |-> st.frames,
     job |-> IF st.raised
             THEN update_progress(
                      mark_failed(add_flag(st.job, fmt(FLAG_STAGE_FAILED, stage.name)),
                                  "ATTRIBUTE_ERROR", now),
                      fmt(MSG_JOB_FAILED, "ATTRIBUTE_ERROR"))
             ELSE update_progress([st.job EXCEPT !.progress.percent = stage.progress_end],
                                  fmt(MSG_STAGE_DONE, stage.name))]

\* ---------------------------------------------------------- _iter_text_items
\* An entity is [tp, text, attribs, block]: tp its dxftype, text the content
\* of a TEXT, MTEXT or ATTRIB, attribs the attributes of an INSERT and block
\* the name of the block it inserts; blocks maps a name to the entities
\* virtual_entities() yields for an insert of it. The source of a TextItem is
\* [virtual, tag]: "msp" followed by virtual times ":virtual", then tag.
MAX_WALK_DEPTH == 8
TEXT_TYPES == {"TEXT", "MTEXT", "ATTRIB"}
\* add_text_entity(e, src): the position and bbox of the item are left out
add_text_entity(e, src) ==
    IF e.tp \in TEXT_TYPES THEN Some([text |-> strip(e.text), source |-> src]) ELSE None
\* the items add_text_entity gives for the entities es with a non-empty text
RECURSIVE text_items_of(_, _)
text_items_of(es, src) ==
    IF es = <<>> THEN <<>>
    ELSE (IF add_text_entity(Head(es), src) # None
             /\ Val(add_text_entity(Head(es), src)).text # <<>>
          THEN <<Val(add_text_entity(Head(es), src))>>
          ELSE <<>>) \o text_items_of(Tail(es), src)
\* the calls walk_entity(ve, prefix + ":virtual", depth + 1) for the entities es
walk_calls(es, depth) == [k \in 1..Len(es) |-> [ent |-> es[k], depth |-> depth + 1]]
\* mutant of walk_entity: the depth is not looked at
walk_entity_unbounded(blocks, ent, depth) ==
    IF ent.tp \in TEXT_TYPES
    THEN [visited |-> TRUE,
          items |-> text_items_of(<<ent>>, [virtual |-> depth, tag |-> ent.tp]),
          calls |-> <<>>]
    ELSE IF ent.tp = "INSERT"
    THEN [visited |-> TRUE,
          items |-> text_items_of(ent.attribs, [virtual |-> depth, tag |-> "attrib"]),
          calls |-> walk_calls(blocks[ent.block], depth)]
    ELSE [visited |-> TRUE, items |-> <<>>, calls |-> <<>>]
\* walk_entity(ent, src_prefix, depth) up to its recursive calls: whether it
\* went past the depth test, the items it yields itself, and the calls it makes
walk_entity(blocks, ent, depth) ==
    IF depth > MAX_WALK_DEPTH
    THEN [visited |-> FALSE, items |-> <<>>, calls |-> <<>>]
    ELSE IF ent.tp \in TEXT_TYPES
    THEN [visited |-> TRUE,
          items |-> text_items_of(<<ent>>, [virtual |-> depth, tag |-> ent.tp]),
          calls |-> <<>>]
    ELSE IF ent.tp = "INSERT"
    THEN [visited |-> TRUE,
          items |-> text_items_of(ent.attribs, [virtual |-> depth, tag |-> "attrib"]),
          calls |-> walk_calls(blocks[ent.block], depth)]
    ELSE [visited |-> TRUE, items |-> <<>>, calls |-> <<>>]

\* --------------------------------------------------------------- DocContext
\* the position of the last "-" of s, or 0: s.rsplit("-", 1)[-1] is what
\* follows it
RECURSIVE last_dash(_)
last_dash(s) ==
    IF s = <<>> THEN 0
    ELSE IF s[Len(s)] = "-" THEN Len(s)
    ELSE last_dash(SubSeq(s, 1, Len(s) - 1))
\* int(suffix) if suffix.isdigit(), else None
seq_no_of_suffix(suffix) ==
    IF suffix # <<>> /\ \A k \in 1..Len(suffix) : suffix[k] \in Digits
    THEN Some(int_of(suffix)) ELSE None
\* TitleblockFields.get_seq_no
get_seq_no(self) ==
    IF /\ self.internal_code # None
       /\ Val(self.internal_code) # <<>>
       /\ last_dash(Val(self.internal_code)) # 0
    THEN seq_no_of_suffix(SubSeq(Val(self.internal_code),
                                 last_dash(Val(self.internal_code)) + 1,
                                 Len(Val(self.internal_code))))
    ELSE None
\* the key of a frame without a sequence number
NO_SEQ_KEY == 9999
key_of_seq(seq) == IF seq # None THEN Val(seq) ELSE NO_SEQ_KEY
\* mutant of sort_key: a frame without a sequence number gets the key 0
sort_key_zero(f) ==
    IF get_seq_no(f.titleblock) # None THEN Val(get_seq_no(f.titleblock)) ELSE 0
\* get_sorted_frames.sort_key
sort_key(f) == key_of_seq(get_seq_no(f.titleblock))
\* sorted(fs, key=sort_key) is stable: f goes behind the frames of sorted_fs
\* whose key is not larger
RECURSIVE insert_by_sort_key(_, _)
insert_by_sort_key(sorted_fs, f) ==
    IF sorted_fs = <<>> THEN <<f>>
    ELSE IF sort_key(Head(sorted_fs)) <= sort_key(f)
    THEN <<Head(sorted_fs)>> \o insert_by_sort_key(Tail(sorted_fs), f)
    ELSE <<f>> \o sorted_fs
RECURSIVE sorted_by_sort_key(_, _)
sorted_by_sort_key(fs, sorted_fs) ==
    IF fs = <<>> THEN sorted_fs
    ELSE sorted_by_sort_key(Tail(fs), insert_by_sort_key(sorted_fs, Head(fs)))
\* DocContext.get_sorted_frames; self_frames is self.frames
get_sorted_frames(self_frames) == sorted_by_sort_key(self_frames, <<>>)

\* ================================================================== runs
\* ------------------------------------------------------- inputs of the runs
EmptyTitleblock ==
    [engineering_no |-> None, internal_code |-> None, external_code |-> None,
     page_total |-> None, page_index |-> None]

Frame(id, bbox, paper, tb) ==
    [runtime |-> [frame_id |-> id, outer_bbox |-> bbox, paper_variant_id |-> paper],
     titleblock |-> tb]

\* sheets drawn 4 x 6 (threshold 2 against each other): a row with a touching
\* pair (x = 0, 4), a gap of 1 (x = 9) and a gap of 2 = threshold (x = 10),
\* two sheets above the row at a gap of 1 (y = 7) and of 2 (y = 8); and one
\* half-size sheet 2 x 3 (threshold 1) touching the end of the row
LayoutBoxes ==
    {BBox(x, 0, x + 4, 6) : x \in {0, 4, 9, 10}}
        \cup {BBox(0, 7, 4, 13), BBox(4, 8, 8, 14), BBox(14, 0, 16, 3)}
LayoutPapers == {Some(p) : p \in PaperIds}
LayoutTitleblocks == {EmptyTitleblock}

\* title-block runs: a row of touching A4 sheets (one cluster). In a row of
\* two every extracted field of both sheets is free; in a row of three the
\* external code is left unextracted to keep the run small. An extracted
\* page_index may be 0 ("第0张" parses to 0)
TitleRow == <<BBox(0, 0, 4, 6), BBox(4, 0, 8, 6), BBox(8, 0, 12, 6)>>
Titleblocks(external_codes) ==
    [engineering_no : {None, Some("1234")},
     internal_code : {None, Some("1234567-JG001-001")},
     external_code : external_codes,
     page_total : {None, Some(MaxPage)},
     page_index : {None} \cup {Some(v) : v \in 0..MaxPage}]
TitleRowOf(n, ts) ==
    List([k \in 1..n |-> Frame(k, TitleRow[k], Some("CNPE_A4"), ts[k])])

\* the parts of the state an operation does not use
GroupIdle ==
    /\ frames = <<>>
    /\ remaining_frames = <<>>
    /\ sheet_sets = <<>>
    /\ clusters = <<>>
ValidateIdle ==
    /\ self_sheet = None
    /\ new_flags = <<>>
FitIdle ==
    /\ fitter = None
    /\ paper_variants = <<>>
    /\ bbox_obs = None
    /\ fit_result = None
    /\ fit_all_results = <<>>
LocateIdle ==
    /\ locator = None
    /\ rectangles = <<>>
    /\ text_items = <<>>
    /\ candidates = <<>>
    /\ selections = <<>>
    /\ located = <<>>
DetectIdle ==
    /\ detector = None
    /\ polylines = <<>>
    /\ msp_texts = <<>>
    /\ detected = <<>>

ExtractIdle ==
    /\ extractor = None
    /\ dxf_doc = None
    /\ target_frame = None
    /\ extract_calls = <<>>
PageIdle ==
    /\ page_texts = <<>>
    /\ page_info = None
FinderIdle ==
    /\ finder = None
    /\ msp_entities = <<>>
    /\ found_rectangles = None
JobIdle ==
    /\ job = None
    /\ next_stage = 0
    /\ stage_log = <<>>
    /\ outcome = None

FlagIdle ==
    /\ flag_job = None
    /\ flag_frame = None
    /\ flag_calls = <<>>
DocIdle ==
    /\ doc_frames = <<>>
    /\ sorted_frames = None
RoiIdle ==
    /\ roi_args = <<>>
    /\ roi_result = <<>>
StageIdle ==
    /\ stage_job = <<>>
    /\ stage_items = <<>>
    /\ stage_result = <<>>
ScanIdle ==
    /\ scan_msp = <<>>
    /\ scan_stack = <<>>
    /\ scan_visited = <<>>
    /\ scan_items = <<>>
CancelIdle ==
    /\ cancel_log = <<>>
RestIdle ==
    /\ FlagIdle
    /\ DocIdle
    /\ RoiIdle
    /\ StageIdle
    /\ ScanIdle
    /\ CancelIdle

\* the state before group_a4_pages(fs) is called
GroupStart(fs) ==
    /\ pc = "init"
    /\ frames = fs
    /\ remaining_frames = <<>>
    /\ sheet_sets = <<>>
    /\ clusters = <<>>
    /\ ValidateIdle
    /\ FitIdle
    /\ LocateIdle
    /\ DetectIdle
    /\ ExtractIdle
    /\ PageIdle
    /\ FinderIdle
    /\ JobIdle
    /\ RestIdle

InitLayout ==
    \E n \in 0..MaxFrames :
    \E bs \in [1..n -> LayoutBoxes] :
    \E ps \in [1..n -> LayoutPapers] :
    \E ts \in [1..n -> LayoutTitleblocks] :
        GroupStart(List([k \in 1..n |-> Frame(k, bs[k], ps[k], ts[k])]))

InitTitle ==
    \/ \E ts \in [1..2 -> Titleblocks({None, Some("JD1NHT11001B25C42SD")})] :
            GroupStart(TitleRowOf(2, ts))
    \/ \E ts \in [1..3 -> Titleblocks({None})] :
            GroupStart(TitleRowOf(3, ts))

\* A4MultipageGrouper.group_a4_pages(frames)
GroupA4Pages ==
    /\ pc = "init"
    /\ \E r \in {group_a4_pages(frames)} :
          /\ remaining_frames' = r.remaining
          /\ sheet_sets' = r.sheet_sets
          /\ clusters' = r.clusters
    /\ pc' = "grouped"
    /\ UNCHANGED <<frames, validateVars, fitVars, locateVars, detectVars,
                   extractVars, pageVars, finderVars, jobVars,
                   restVars>>

\* validation runs: a SheetSet built directly, as the unit tests build it:
\* any pages, any page_total, any (or no) master_page, flags already present
Page(i, titled) ==
    [page_index |-> i, outer_bbox |-> BBox(0, 0, 4, 6), has_titleblock |-> titled,
     frame_meta |-> None, of_frame |-> 0]
InitValidate ==
    \E n \in 0..MaxPages :
    \E idx \in [1..n -> 0..MaxPage] :
    \E total \in 0..MaxPage :
    \E master \in {None} \cup {Some(Page(i, TRUE)) : i \in 0..MaxPage} :
    \E old \in {<<>>, <<FLAG_PAGE_COUNT>>, <<FLAG_FIRST_PAGE, FLAG_PAGE_COUNT>>} :
        /\ pc = "init"
        /\ self_sheet = [cluster_id |-> 1,
                        page_total |-> total,
                        pages |-> List([k \in 1..n |-> Page(idx[k], FALSE)]),
                        master_page |-> master,
                        flags |-> old]
        /\ new_flags = <<>>
        /\ GroupIdle
        /\ FitIdle
        /\ LocateIdle
        /\ DetectIdle
        /\ ExtractIdle
        /\ PageIdle
        /\ FinderIdle
        /\ JobIdle
        /\ RestIdle

\* SheetSet.validate_consistency()
ValidateConsistency ==
    /\ pc = "init"
    /\ new_flags' = validate_consistency(self_sheet)
    /\ self_sheet' = validated(self_sheet)
    /\ pc' = "validated"
    /\ UNCHANGED <<groupVars, fitVars, locateVars, detectVars,
                   extractVars, pageVars, finderVars, jobVars,
                   restVars>>


\* subsequences of a pool (a list) with at most n elements, in pool order
SubLists(pool, n) ==
    {List([k \in 1..Cardinality(S) |-> pool[SortedSeq(S)[k]]]) :
        S \in {T \in SUBSET (1..Len(pool)) : Cardinality(T) <= n}}

\* fitting runs: standard sizes are powers of two, so that the scales of the
\* observed sizes are exact in binary floating point as they are here.
\* Observed against 64 x 64: 50 x 49 is at the tolerance (1/50), 64 x 63
\* inside it, 50 x 63 outside; 128 x 128 is twice the size and a standard
\* size itself; 128 x 64 and 64 x 128 are the second standard size as drawn
\* and rotated; two entries are skipped (no width, no profile)
VariantIds == <<"V1", "V2", "V3", "V4">>
FitVariants ==
    {[W |-> 64, H |-> 64, profile |-> "BASE"],
     [W |-> 128, H |-> 64, profile |-> "WIDE"],
     [W |-> 128, H |-> 128, profile |-> "BIG"],
     [W |-> 0, H |-> 64, profile |-> "BASE"],
     [W |-> 64, H |-> 64, profile |-> ""]}
ObsDims == {49, 50, 63, 64, 128}
SCALE_DIFF == "scale_diff"
InitFit ==
    \E n \in 0..MaxVariants :
    \E vs \in [1..n -> FitVariants] :
    \E w \in ObsDims :
    \E h \in ObsDims :
    \E cfg \in [allow_rotation : BOOLEAN, uniform_scale_required : BOOLEAN,
                error_metric : {MAX_REL_ERROR, SCALE_DIFF}] :
        /\ pc = "init"
        /\ fitter = cfg
        /\ paper_variants = List([k \in 1..n |->
                                [id |-> VariantIds[k], W |-> vs[k].W, H |-> vs[k].H,
                                 profile |-> vs[k].profile]])
        /\ bbox_obs = BBox(0, 0, w, h)
        /\ fit_result = None
        /\ fit_all_results = <<>>
        /\ GroupIdle
        /\ ValidateIdle
        /\ LocateIdle
        /\ DetectIdle
        /\ ExtractIdle
        /\ PageIdle
        /\ FinderIdle
        /\ JobIdle
        /\ RestIdle

\* PaperFitter.fit(bbox, paper_variants); fit_all is what it iterates over
Fit ==
    /\ pc = "init"
    /\ fit_result' = fit(fitter, bbox_obs, paper_variants)
    /\ fit_all_results' = fit_all(fitter, bbox_obs, paper_variants)
    /\ pc' = "fitted"
    /\ UNCHANGED <<fitter, paper_variants, bbox_obs,
                   groupVars, validateVars, locateVars, detectVars,
                   extractVars, pageVars, finderVars, jobVars,
                   restVars>>

\* locating and detecting runs: a catalog of three sizes, the A3 one with a
\* profile that has no anchor field
DrawingCatalog ==
    <<[id |-> "CNPE_A1", W |-> 600, H |-> 400, profile |-> "BASE"],
      [id |-> "CNPE_A3", W |-> 440, H |-> 310, profile |-> "BARE"],
      [id |-> "CNPE_A4", W |-> 200, H |-> 280, profile |-> "SMALL"]>>
RoiProfiles ==
    [BASE |-> [fields |-> [anchor |-> <<0, 200, 0, 100>>]],
     SMALL |-> [fields |-> [anchor |-> <<0, 100, 0, 50>>]],
     BARE |-> [fields |-> [internal_code |-> <<10, 52, 42, 52>>]]]
DefaultFitter ==
    [allow_rotation |-> TRUE, uniform_scale_required |-> TRUE,
     error_metric |-> MAX_REL_ERROR]
\* the anchor strings: the company name (non-ASCII in the source) is the
\* primary text, "CNPE" the secondary one
PRIMARY_TEXT == "COMPANY_NAME_ZH"
SECONDARY_TEXT == "CNPE"

\* rectangles in non-increasing area order, as find_rectangles returns them:
\* an A1 sheet, the same sheet drawn 10 narrower (fits A1 with an error), an
\* A3 sheet, a half-scale A1 sheet in the corner of the first, two touching A4
\* sheets and a square that fits no size
RectPool ==
    <<BBox(0, 0, 600, 400), BBox(10, 0, 600, 400), BBox(0, 500, 440, 810),
      BBox(300, 0, 600, 200), BBox(700, 0, 900, 280), BBox(900, 0, 1100, 280),
      BBox(0, 900, 100, 1000)>>
TextItem(x, y, text, bbox) == [x |-> x, y |-> y, text |-> text, bbox |-> bbox]
\* texts: in the anchor ROI of both A1 sheets and of the half-scale sheet
\* (1, 2), of the A1 sheets only (3, 4), of no sheet (5), of the first A4
\* sheet (6), left of the A1 ROI but reaching into it (7), and right-aligned
\* at the left edge of the ROI of the full A1 sheet only (8)
TextPool ==
    <<TextItem(550, 20, {PRIMARY_TEXT}, Some(BBox(550, 20, 580, 30))),
      TextItem(560, 30, {SECONDARY_TEXT}, Some(BBox(560, 30, 590, 40))),
      TextItem(450, 80, {PRIMARY_TEXT}, Some(BBox(450, 80, 480, 90))),
      TextItem(460, 80, {SECONDARY_TEXT}, Some(BBox(460, 80, 490, 90))),
      TextItem(10, 450, {PRIMARY_TEXT}, Some(BBox(10, 450, 40, 460))),
      TextItem(850, 20, {PRIMARY_TEXT, SECONDARY_TEXT}, Some(BBox(850, 20, 880, 30))),
      TextItem(380, 20, {PRIMARY_TEXT}, Some(BBox(380, 20, 410, 30))),
      TextItem(401, 20, {SECONDARY_TEXT}, Some(BBox(371, 20, 401, 30)))>>
Locator(policy, limit, margin) ==
    [paper_variants |-> DrawingCatalog, fitter |-> DefaultFitter,
     roi_profiles |-> RoiProfiles, roi_field_name |-> ANCHOR_FIELD,
     primary_text |-> PRIMARY_TEXT, secondary_text |-> SECONDARY_TEXT,
     match_policy |-> policy, max_candidates |-> limit,
     roi_margin_percent |-> margin]
LocatorConfigs ==
    {Locator(POLICY_DOUBLE, None, RInt(0)), Locator(POLICY_ANY, None, RInt(0)),
     Locator(POLICY_DOUBLE, Some(2), Rat(1, 10)),
     Locator(POLICY_ANY, Some(2), Rat(1, 10))}
InitLocate ==
    \E cfg \in LocatorConfigs :
    \E rects \in SubLists(RectPool, MaxRects) :
    \E texts \in SubLists(TextPool, MaxTexts) :
        /\ pc = "init"
        /\ locator = cfg
        /\ rectangles = rects
        /\ text_items = texts
        /\ candidates = <<>>
        /\ selections = <<>>
        /\ located = <<>>
        /\ GroupIdle
        /\ ValidateIdle
        /\ FitIdle
        /\ DetectIdle
        /\ ExtractIdle
        /\ PageIdle
        /\ FinderIdle
        /\ JobIdle
        /\ RestIdle

\* AnchorFirstLocator.locate_frames(msp, dxf_path)
LocateFrames ==
    /\ pc = "init"
    /\ \E r \in {locate_frames(locator, text_items, rectangles)} :
          /\ candidates' = r.candidates
          /\ selections' = r.selections
          /\ located' = r.frames
    /\ pc' = "located"
    /\ UNCHANGED <<locator, rectangles, text_items,
                   groupVars, validateVars, fitVars, detectVars,
                   extractVars, pageVars, finderVars, jobVars,
                   restVars>>

\* locating runs on A4 sheets: an A1 sheet, two touching A4 sheets, the first
\* of them drawn twice, a third A4 sheet 50 from the second, an A4 sheet far
\* from the others and an A4 sheet drawn in landscape (280 x 200); anchor
\* texts in the ROI of the A1 sheet, of the first, of the second and of the
\* far A4 sheet
A4RectPool ==
    <<BBox(0, 0, 600, 400), BBox(700, 0, 900, 280), BBox(900, 0, 1100, 280),
      BBox(700, 0, 900, 280), BBox(1150, 0, 1350, 280), BBox(2000, 0, 2200, 280),
      BBox(0, 500, 280, 700)>>
A4TextPool ==
    <<TextItem(550, 20, {PRIMARY_TEXT, SECONDARY_TEXT}, None),
      TextItem(850, 20, {PRIMARY_TEXT, SECONDARY_TEXT}, None),
      TextItem(1050, 20, {PRIMARY_TEXT}, None),
      TextItem(2150, 20, {PRIMARY_TEXT, SECONDARY_TEXT}, None)>>
InitLocateA4 ==
    \E cfg \in {Locator(POLICY_DOUBLE, None, RInt(0)), Locator(POLICY_ANY, None, RInt(0))} :
    \E rects \in SubLists(A4RectPool, MaxRects) :
    \E texts \in SubLists(A4TextPool, MaxTexts) :
        /\ pc = "init"
        /\ locator = cfg
        /\ rectangles = rects
        /\ text_items = texts
        /\ candidates = <<>>
        /\ selections = <<>>
        /\ located = <<>>
        /\ GroupIdle
        /\ ValidateIdle
        /\ FitIdle
        /\ DetectIdle
        /\ ExtractIdle
        /\ PageIdle
        /\ FinderIdle
        /\ JobIdle
        /\ RestIdle

\* detecting runs: closed sheets (A1, half-scale A1, A4), an A4 sheet left
\* open, a triangle, a 50 x 50 box and a 100 x 100 square that fits no size
Rect(x0, y0, x1, y1) == <<<<x0, y0>>, <<x1, y0>>, <<x1, y1>>, <<x0, y1>>>>
PolylinePool ==
    <<[closed |-> TRUE, points |-> Rect(0, 0, 600, 400)],
      [closed |-> TRUE, points |-> Rect(300, 0, 600, 200)],
      [closed |-> FALSE, points |-> Rect(700, 500, 900, 780)],
      [closed |-> TRUE, points |-> <<<<0, 500>>, <<600, 500>>, <<0, 900>>>>],
      [closed |-> TRUE, points |-> Rect(0, 1000, 50, 1050)],
      [closed |-> TRUE, points |-> Rect(0, 1100, 100, 1200)],
      [closed |-> TRUE, points |-> Rect(700, 0, 900, 280)]>>
\* texts: an anchor in the ROI of the A1 sheets, an anchor inside the A1 sheet
\* but outside its ROI, an anchor in the ROI of the A4 sheet, and a text in
\* the ROI of the A1 sheets that is no anchor
MspTextPool ==
    <<[x |-> 550, y |-> 20, text |-> {SECONDARY_TEXT}],
      [x |-> 10, y |-> 300, text |-> {SECONDARY_TEXT}],
      [x |-> 850, y |-> 20, text |-> {PRIMARY_TEXT}],
      [x |-> 560, y |-> 20, text |-> {"DRAWING TITLE"}]>>
\* an AnchorValidator with the default configuration
Validator ==
    [search_texts |-> <<SECONDARY_TEXT, PRIMARY_TEXT>>, profile_priority |-> <<>>,
     roi_margin_percent |-> RInt(0), roi_profiles |-> RoiProfiles]
InitDetect ==
    \E lines \in SubLists(PolylinePool, MaxPolylines) :
    \E texts \in SubLists(MspTextPool, MaxTexts) :
        /\ pc = "init"
        /\ detector = [paper_variants |-> DrawingCatalog]
        /\ polylines = lines
        /\ msp_texts = texts
        /\ detected = <<>>
        /\ GroupIdle
        /\ ValidateIdle
        /\ FitIdle
        /\ LocateIdle
        /\ ExtractIdle
        /\ PageIdle
        /\ FinderIdle
        /\ JobIdle
        /\ RestIdle

\* FrameDetector.detect_frames(dxf_path) on a file that exists and parses
DetectFrames ==
    /\ pc = "init"
    /\ detected' = detect_frames(detector, polylines, msp_texts)
    /\ pc' = "detected"
    /\ UNCHANGED <<detector, polylines, msp_texts,
                   groupVars, validateVars, fitVars, locateVars,
                   extractVars, pageVars, finderVars, jobVars,
                   restVars>>

\* extracting runs: one A1 frame drawn at full or half scale, a profile with
\* every field the parser reads (each field a band 100 wide at the right
\* edge of the frame), a profile with two fields, and a profile id that no
\* profile has
ExtractProfiles ==
    [BASE10 |-> [fields |->
        [roi_internal_code |-> <<0, 100, 0, 8>>,
         roi_external_code |-> <<0, 100, 10, 18>>,
         roi_engineering_no |-> <<0, 100, 20, 28>>,
         roi_scale |-> <<0, 100, 30, 38>>,
         roi_page_info |-> <<0, 100, 40, 48>>,
         roi_title |-> <<0, 100, 50, 68>>,
         roi_revision |-> <<0, 100, 70, 88>>,
         roi_subitem_no |-> <<0, 100, 90, 98>>,
         roi_status |-> <<0, 100, 100, 108>>,
         roi_paper_size |-> <<0, 100, 110, 118>>,
         roi_discipline |-> <<0, 100, 120, 128>>,
         roi_date |-> <<0, 100, 130, 138>>]],
     SMALL |-> [fields |->
        [roi_page_info |-> <<0, 100, 40, 48>>,
         roi_title |-> <<0, 100, 50, 68>>]]]
Extractor == [roi_profiles |-> ExtractProfiles]

TextEntity(x, y, text) ==
    [insert |-> Some([x |-> x, y |-> y]), text |-> Some(text)]
\* the 19 characters of an external code
Code19 ==
    <<"J", "D", "1", "N", "H", "T", "1", "1", "0", "0",
      "1", "B", "2", "5", "C", "4", "2", "S", "D">>
\* the texts of a title block: internal codes (lower case with a sequence
\* number, spaced without one), an external code and its header, engineering
\* numbers (one too long), scales, page phrases (one with a malformed index
\* token), title lines, revisions, a blank sub-item, a status; a text that
\* cannot be read, an entity without insertion point, and a text that is in
\* the engineering-number band at full scale and in the page band at half
EntityPool ==
    <<TextEntity(510, 4, <<"1", "2", "3", "4", "5", "6", "7", "-",
                           "j", "g", "0", "0", "1", "-", "0", "0", "1">>),
      TextEntity(510, 6, <<"1", "2", " ", "3", "4", "5", "6", "7", "-",
                           "J", "G", "0", "0", "1">>),
      TextEntity(510, 14, Code19),
      TextEntity(505, 14, <<"D", "o", "c", ".", " ", "N", "o", ".">>),
      TextEntity(510, 24, <<"1", "2", "3", "4">>),
      TextEntity(510, 26, <<"1", "2", "3", "4", "5">>),
      TextEntity(510, 34, <<"1", ":", "5", "0">>),
      TextEntity(510, 36, <<"1", FWCOLON, "2", ".", "5">>),
      TextEntity(510, 44, <<GONG, "5", ZHANG, " ", DI, "3", ZHANG>>),
      TextEntity(510, 46, <<DI, "X", "X", ZHANG>>),
      TextEntity(520, 44, <<GONG, "2", "0", ZHANG, DI, "x", ZHANG>>),
      TextEntity(510, 60, <<TU, TU>>),
      TextEntity(510, 55, <<"P", "L", "A", "N">>),
      TextEntity(510, 80, <<"A">>),
      TextEntity(510, 75, <<" ", "B", " ">>),
      TextEntity(510, 94, <<" ">>),
      TextEntity(510, 104, <<"I", "F", "C">>),
      [insert |-> Some([x |-> 510, y |-> 4]), text |-> None],
      [insert |-> None, text |-> Some(<<"A">>)],
      TextEntity(560, 22, <<"1", "2", "3", "4">>)>>

ExtractFrame(profile_id, scale, tb) ==
    [runtime |-> [frame_id |-> 1,
                  outer_bbox |-> BBox(0, 0, 600, 400),
                  paper_variant_id |-> Some("CNPE_A1"),
                  sx |-> scale, sy |-> scale,
                  roi_profile_id |-> profile_id],
     titleblock |-> tb,
     raw_extracts |-> <<>>]
\* a title block left by an earlier extraction of another document
StaleTitleblock ==
    [TitleblockFields EXCEPT !.revision = Some(<<"Z">>),
                             !.page_index = Some(9),
                             !.external_code = Some(Code19)]
ExtractFrames ==
    {ExtractFrame(p, s, tb) :
        p \in {None, Some("SMALL"), Some("MISSING")},
        s \in {None, Some(Rat(1, 2))},
        tb \in {TitleblockFields, StaleTitleblock}}

\* the state before extract_fields(dxf, f) is first called
ExtractStart(dxf, f) ==
    /\ pc = "init"
    /\ extractor = Some(Extractor)
    /\ dxf_doc = dxf
    /\ target_frame = f
    /\ extract_calls = <<>>
    /\ GroupIdle
    /\ ValidateIdle
    /\ FitIdle
    /\ LocateIdle
    /\ DetectIdle
    /\ PageIdle
    /\ FinderIdle
    /\ JobIdle
    /\ RestIdle

InitExtract ==
    \E dxf \in {None} \cup {Some(msp) : msp \in SubLists(EntityPool, MaxEntities)} :
    \E f \in ExtractFrames :
        ExtractStart(dxf, f)

\* external-code runs: the 19 characters of a code as 19 single-character
\* texts in the external-code ROI, the k-th at x = 500 + 5k. The stream
\* holds them in ascending x except for one exchanged pair (i, j); all on
\* one line, or one of them (raised) drawn one unit higher; the header
\* "DOC.NO" (one text, left of the 19) is absent, first or last in the stream
CodeFragment(k, raised) ==
    TextEntity(500 + 5 * k, IF k = raised THEN 15 ELSE 14, <<Code19[k]>>)
Exchanged(i, j, k) == IF k = i THEN j ELSE IF k = j THEN i ELSE k
HeaderEntity == TextEntity(500, 14, <<"D", "O", "C", ".", "N", "O">>)
CodeStream(i, j, raised, header) ==
    LET chars == List([k \in 1..ExternalCodeLen |->
                        CodeFragment(Exchanged(i, j, k), raised)])
    IN IF header = "first" THEN <<HeaderEntity>> \o chars
       ELSE IF header = "last" THEN chars \o <<HeaderEntity>>
       ELSE chars
InitExternal ==
    \E i \in 1..MaxExchange :
    \E j \in i..ExternalCodeLen :
    \E raised \in {0, 1, ExternalCodeLen} :
    \E header \in {"none", "first", "last"} :
        ExtractStart(Some(CodeStream(i, j, raised, header)),
                     ExtractFrame(None, None, TitleblockFields))

\* TitleblockExtractor.extract_fields(dxf_path, frame)
ExtractFields ==
    /\ pc \in {"init", "extracted"}
    /\ Len(extract_calls) < MaxCalls
    /\ \E r \in {extract_fields(Val(extractor), dxf_doc, target_frame)} :
          /\ target_frame' = r.frame
          /\ extract_calls' = Append(extract_calls,
                [before |-> target_frame, after |-> r.frame, raised |-> r.raised])
    /\ pc' = "extracted"
    /\ UNCHANGED <<extractor, dxf_doc, groupVars, validateVars, fitVars,
                   locateVars, detectVars, pageVars, finderVars, jobVars,
                   restVars>>

\* page-info runs: the texts of the page-info ROI, in any order from a pool:
\* whole phrases (with X, x, blanks, a newline), single sub-phrases, index
\* tokens that are neither a number nor X, pieces that only make a
\* sub-phrase when joined, and texts without any
RoiText(text) == [text |-> text, x |-> 0, y |-> 0]
PageTextPool ==
    <<RoiText(<<GONG, "2", "0", ZHANG, DI, "X", ZHANG>>),
      RoiText(<<GONG, "5", ZHANG, " ", DI, "3", ZHANG>>),
      RoiText(<<GONG, "5", ZHANG, NL, DI, "3", ZHANG>>),
      RoiText(<<GONG, " ", "1", "2", " ", ZHANG>>),
      RoiText(<<DI, " ", "x", " ", ZHANG>>),
      RoiText(<<DI, "0", "7", ZHANG>>),
      RoiText(<<DI, "X", "X", ZHANG>>),
      RoiText(<<DI, "1", "X", ZHANG>>),
      RoiText(<<"A", "4">>),
      RoiText(<<>>),
      RoiText(<<GONG, ZHANG>>),
      RoiText(<<GONG, "3">>),
      RoiText(<<ZHANG>>),
      RoiText(<<DI>>),
      RoiText(<<"2">>)>>
InitPageInfo ==
    \E n \in 0..MaxPageTexts :
    \E pick \in [1..n -> 1..Len(PageTextPool)] :
        /\ pc = "init"
        /\ page_texts = List([k \in 1..n |-> PageTextPool[pick[k]]])
        /\ page_info = None
        /\ GroupIdle
        /\ ValidateIdle
        /\ FitIdle
        /\ LocateIdle
        /\ DetectIdle
        /\ ExtractIdle
        /\ FinderIdle
        /\ JobIdle
        /\ RestIdle

\* TitleblockExtractor._parse_page_info(texts)
ParsePageInfo ==
    /\ pc = "init"
    /\ page_info' = Some(parse_page_info(page_texts))
    /\ pc' = "parsed"
    /\ UNCHANGED <<page_texts, groupVars, validateVars, fitVars, locateVars,
                   detectVars, extractVars, finderVars, jobVars,
                   restVars>>


\* finding runs: LWPOLYLINEs (a 200 x 150 sheet before a 400 x 300 one, a
\* 50 x 50 box, an open sheet, one whose points cannot be read, a rotated
\* square, a right triangle closed by repeating its first vertex), POLYLINEs (a closed 300 x 300 sheet, one without the is_closed
\* attribute) and LINEs: three horizontals and two verticals that make the
\* rectangles 200 x 150, 200 x 400 and 200 x 250, a line whose endpoints
\* cannot be read, a horizontal rising 2 in 200, a diagonal, an edge at
\* y = 150 in two overlapping pieces (the second falling 1 in 100), a
\* line of length 0, and an edge at y = 0 in two pieces with a gap of 1
LwPolyline(is_closed, can_read, pts) ==
    [dxftype |-> "LWPOLYLINE", readable |-> can_read, closed |-> is_closed,
     is_closed |-> None, points |-> pts, start |-> <<0, 0>>, end |-> <<0, 0>>]
Polyline(closed_attr, pts) ==
    [dxftype |-> "POLYLINE", readable |-> TRUE, closed |-> FALSE,
     is_closed |-> closed_attr, points |-> pts, start |-> <<0, 0>>, end |-> <<0, 0>>]
Line(can_read, p, q) ==
    [dxftype |-> "LINE", readable |-> can_read, closed |-> FALSE,
     is_closed |-> None, points |-> <<>>, start |-> p, end |-> q]
MspPool ==
    <<LwPolyline(TRUE, TRUE, Rect(0, 0, 200, 150)),
      LwPolyline(TRUE, TRUE, Rect(0, 0, 400, 300)),
      LwPolyline(TRUE, TRUE, Rect(500, 0, 550, 50)),
      LwPolyline(FALSE, TRUE, Rect(0, 500, 300, 800)),
      LwPolyline(TRUE, FALSE, <<>>),
      LwPolyline(TRUE, TRUE, <<<<0, 0>>, <<200, 50>>, <<150, 250>>, <<-50, 200>>>>),
      LwPolyline(TRUE, TRUE, <<<<0, 0>>, <<300, 0>>, <<0, 200>>, <<0, 0>>>>),
      Polyline(Some(TRUE), Rect(600, 0, 900, 300)),
      Polyline(None, Rect(600, 400, 900, 700)),
      Line(TRUE, <<0, 0>>, <<200, 0>>),
      Line(TRUE, <<0, 150>>, <<200, 150>>),
      Line(TRUE, <<200, 400>>, <<0, 400>>),
      Line(TRUE, <<0, 0>>, <<0, 400>>),
      Line(TRUE, <<200, 400>>, <<200, 0>>),
      Line(FALSE, <<0, 0>>, <<0, 0>>),
      Line(TRUE, <<0, 150>>, <<200, 152>>),
      Line(TRUE, <<0, 0>>, <<200, 150>>),
      Line(TRUE, <<0, 150>>, <<120, 150>>),
      Line(TRUE, <<100, 151>>, <<200, 150>>),
      Line(TRUE, <<5, 5>>, <<5, 5>>),
      Line(TRUE, <<0, 0>>, <<89, 0>>),
      Line(TRUE, <<90, 0>>, <<200, 0>>)>>
\* CandidateFinder() with its default arguments
DefaultFinder == [min_dim |-> DEFAULT_MIN_DIM, coord_tol |-> COORD_TOL]
InitFind ==
    \E msp \in SubLists(MspPool, MaxMspEntities) :
        /\ pc = "init"
        /\ finder = Some(DefaultFinder)
        /\ msp_entities = msp
        /\ found_rectangles = None
        /\ GroupIdle
        /\ ValidateIdle
        /\ FitIdle
        /\ LocateIdle
        /\ DetectIdle
        /\ ExtractIdle
        /\ PageIdle
        /\ JobIdle
        /\ RestIdle

\* CandidateFinder.find_rectangles(msp)
FindRectangles ==
    /\ pc = "init"
    /\ found_rectangles' = Some(find_rectangles(Val(finder), msp_entities))
    /\ pc' = "found"
    /\ UNCHANGED <<finder, msp_entities, groupVars, validateVars, fitVars,
                   locateVars, detectVars, extractVars, pageVars, jobVars,
                   restVars>>


\* executing runs: a job as the API queues it, or one that failed in an
\* earlier execution and is executed again (its flags, error and finished_at
\* still there); a handler returns or raises one of two exceptions
ErrorTexts == {"ATTRIBUTE_ERROR", "DISK_FULL"}
QueuedJob ==
    [status |-> QUEUED,
     progress |-> [stage |-> "INIT", percent |-> 0, message |-> <<>>],
     flags |-> <<>>, errors |-> <<>>, started_at |-> None, finished_at |-> None]
FailedJobs ==
    {[QueuedJob EXCEPT !.status = FAILED,
                       !.progress = [stage |-> s.name, percent |-> s.progress_start,
                                     message |-> fmt(MSG_JOB_FAILED, "DISK_FULL")],
                       !.flags = <<fmt(FLAG_STAGE_FAILED, s.name)>>,
                       !.errors = <<"DISK_FULL">>,
                       !.started_at = Some(-2), !.finished_at = Some(-1)] :
        s \in {DELIVERABLE_STAGES[1], DELIVERABLE_STAGES[3]}}
InitExecute ==
    \E j \in {QueuedJob} \cup FailedJobs :
        /\ pc = "init"
        /\ job = Some(j)
        /\ next_stage = 0
        /\ stage_log = <<>>
        /\ outcome = None
        /\ GroupIdle
        /\ ValidateIdle
        /\ FitIdle
        /\ LocateIdle
        /\ DetectIdle
        /\ ExtractIdle
        /\ PageIdle
        /\ FinderIdle
        /\ RestIdle

\* execute up to the loop: mark_running, the first progress write
ExecuteBegin ==
    /\ pc = "init"
    /\ job' = Some(update_progress(mark_running(Val(job), 0), fmt(MSG_JOB_STARTED, "")))
    /\ next_stage' = 1
    /\ pc' = "running"
    /\ UNCHANGED <<stage_log, outcome, groupVars, validateVars, fitVars,
                   locateVars, detectVars, extractVars, pageVars, finderVars,
                   restVars>>

\* one pass of the loop: _execute_stage(job, stage, context) returns
StageReturns ==
    /\ pc = "running"
    /\ next_stage <= Len(DELIVERABLE_STAGES)
    /\ \E added \in SubLists(handler_flags(DELIVERABLE_STAGES[next_stage]), 1) :
            /\ job' = Some(stage_returned(Val(job), DELIVERABLE_STAGES[next_stage], added))
            /\ stage_log' = Append(stage_log,
                    [stage |-> DELIVERABLE_STAGES[next_stage].name,
                     raised |-> FALSE, error |-> None])
    /\ next_stage' = next_stage + 1
    /\ UNCHANGED <<pc, outcome, groupVars, validateVars, fitVars,
                   locateVars, detectVars, extractVars, pageVars, finderVars,
                   restVars>>

\* one pass of the loop: the handler raises, _execute_stage flags the job and
\* raises, execute marks the job failed and raises
StageRaises ==
    /\ pc = "running"
    /\ next_stage <= Len(DELIVERABLE_STAGES)
    /\ \E added \in SubLists(handler_flags(DELIVERABLE_STAGES[next_stage]), 1) :
       \E e \in ErrorTexts :
            /\ job' = Some(stage_raised(Val(job), DELIVERABLE_STAGES[next_stage],
                                        added, e, next_stage))
            /\ stage_log' = Append(stage_log,
                    [stage |-> DELIVERABLE_STAGES[next_stage].name,
                     raised |-> TRUE, error |-> Some(e)])
            /\ outcome' = Some([raised |-> TRUE, error |-> Some(e)])
    /\ pc' = "done"
    /\ UNCHANGED <<next_stage, groupVars, validateVars, fitVars,
                   locateVars, detectVars, extractVars, pageVars, finderVars,
                   restVars>>

\* the end of the loop: mark_succeeded, execute returns
ExecuteEnd ==
    /\ pc = "running"
    /\ next_stage > Len(DELIVERABLE_STAGES)
    /\ job' = Some(mark_succeeded(Val(job), next_stage))
    /\ outcome' = Some([raised |-> FALSE, error |-> None])
    /\ pc' = "done"
    /\ UNCHANGED <<next_stage, stage_log, groupVars, validateVars, fitVars,
                   locateVars, detectVars, extractVars, pageVars, finderVars,
                   restVars>>

Execute == ExecuteBegin \/ StageReturns \/ StageRaises \/ ExecuteEnd

\* flag runs: a job and a frame as they are constructed (flags empty), then
\* calls of add_flag on either with one of three flags
FlagPool == {"CONVERT_FAILED", "DETECT_FAILED", "SCALE_MISMATCH"}
FlagFrame == [runtime |-> [frame_id |-> 1, flags |-> <<>>]]
InitFlags ==
    /\ pc = "init"
    /\ flag_job = Some(QueuedJob)
    /\ flag_frame = Some(FlagFrame)
    /\ flag_calls = <<>>
    /\ GroupIdle
    /\ ValidateIdle
    /\ FitIdle
    /\ LocateIdle
    /\ DetectIdle
    /\ ExtractIdle
    /\ PageIdle
    /\ FinderIdle
    /\ JobIdle
    /\ DocIdle
    /\ RoiIdle
    /\ StageIdle
    /\ ScanIdle
    /\ CancelIdle

\* job.add_flag(flag)
AddJobFlag ==
    /\ Len(flag_calls) < MaxFlagCalls
    /\ \E flag \in FlagPool :
        /\ flag_job' = Some(add_flag(Val(flag_job), flag))
        /\ flag_calls' = Append(flag_calls, [target |-> "job", flag |-> flag])
    /\ pc' = "called"
    /\ UNCHANGED <<flag_frame, groupVars, validateVars, fitVars, locateVars,
                   detectVars, extractVars, pageVars, finderVars, jobVars,
                   docVars,
                   roiVars,
                   stageVars,
                   scanVars,
                   cancelVars>>
\* frame.add_flag(flag)
AddFrameFlag ==
    /\ Len(flag_calls) < MaxFlagCalls
    /\ \E flag \in FlagPool :
        /\ flag_frame' = Some(frame_add_flag(Val(flag_frame), flag))
        /\ flag_calls' = Append(flag_calls, [target |-> "frame", flag |-> flag])
    /\ pc' = "called"
    /\ UNCHANGED <<flag_job, groupVars, validateVars, fitVars, locateVars,
                   detectVars, extractVars, pageVars, finderVars, jobVars,
                   docVars,
                   roiVars,
                   stageVars,
                   scanVars,
                   cancelVars>>
AddFlag == AddJobFlag \/ AddFrameFlag

\* sorting runs: the frames of a DocContext carry the internal codes that
\* _parse_internal_code returns: None, the short form, or the long form with
\* its three-digit sequence number (001, 002, 010, and 002 of another album)
InternalCodePool ==
    <<None,
      Some(<<"1", "2", "3", "4", "5", "6", "7", "-", "J", "G", "0", "0", "1">>),
      Some(<<"1", "2", "3", "4", "5", "6", "7", "-", "J", "G", "0", "0", "1",
             "-", "0", "0", "1">>),
      Some(<<"1", "2", "3", "4", "5", "6", "7", "-", "J", "G", "0", "0", "1",
             "-", "0", "0", "2">>),
      Some(<<"1", "2", "3", "4", "5", "6", "7", "-", "J", "G", "0", "0", "1",
             "-", "0", "1", "0">>),
      Some(<<"1", "2", "3", "4", "5", "6", "7", "-", "J", "G", "0", "0", "2",
             "-", "0", "0", "2">>)>>
DocFrame(id, code) ==
    [runtime |-> [frame_id |-> id],
     titleblock |-> [TitleblockFields EXCEPT !.internal_code = code]]
InitSort ==
    \E n \in 0..MaxDocFrames :
    \E pick \in [1..n -> 1..Len(InternalCodePool)] :
        /\ pc = "init"
        /\ doc_frames = List([k \in 1..n |-> DocFrame(k, InternalCodePool[pick[k]])])
        /\ sorted_frames = None
        /\ GroupIdle
        /\ ValidateIdle
        /\ FitIdle
        /\ LocateIdle
        /\ DetectIdle
        /\ ExtractIdle
        /\ PageIdle
        /\ FinderIdle
        /\ JobIdle
        /\ FlagIdle
        /\ RoiIdle
        /\ StageIdle
        /\ ScanIdle
        /\ CancelIdle

\* ctx.get_sorted_frames()
GetSortedFrames ==
    /\ pc = "init"
    /\ sorted_frames' = Some(get_sorted_frames(doc_frames))
    /\ pc' = "done"
    /\ UNCHANGED <<doc_frames, groupVars, validateVars, fitVars, locateVars,
                   detectVars, extractVars, pageVars, finderVars, jobVars,
                   flagVars,
                   roiVars,
                   stageVars,
                   scanVars,
                   cancelVars>>

\* ROI runs: the validator, the locator and the extractor each restore the
\* ROI of one rb_offset on one outer bbox at one scale. The scales are those
\* of a fitted sheet (positive); the last offset of the pool has its right
\* and bottom distances larger than its left and top ones.
RoiOuterPool == <<BBox(0, 0, 600, 400), BBox(700, 0, 900, 280), BBox(30, 50, 330, 250)>>
RoiOffsetPool == <<<<0, 200, 0, 100>>, <<20, 120, 10, 60>>, <<50, 50, 30, 30>>,
                   <<120, 20, 60, 10>>>>
RoiScalePool == <<Rat(1, 2), RInt(1), Rat(3, 2)>>
RoiUsers == {"validator", "locator", "extractor"}
InitRoi ==
    \E o \in 1..Len(RoiOuterPool), f \in 1..Len(RoiOffsetPool) :
    \E x, y \in 1..Len(RoiScalePool) :
        /\ pc = "init"
        /\ roi_args = [outer_bbox |-> RoiOuterPool[o], rb_offset |-> RoiOffsetPool[f],
                       sx |-> RoiScalePool[x], sy |-> RoiScalePool[y]]
        /\ roi_result = [u \in RoiUsers |-> None]
        /\ GroupIdle
        /\ ValidateIdle
        /\ FitIdle
        /\ LocateIdle
        /\ DetectIdle
        /\ ExtractIdle
        /\ PageIdle
        /\ FinderIdle
        /\ JobIdle
        /\ FlagIdle
        /\ DocIdle
        /\ StageIdle
        /\ ScanIdle
        /\ CancelIdle

RoiUnchanged ==
    UNCHANGED <<pc, roi_args, groupVars, validateVars, fitVars, locateVars,
                detectVars, extractVars, pageVars, finderVars, jobVars,
                flagVars, docVars,
                stageVars,
                scanVars,
                cancelVars>>
\* AnchorValidator._restore_roi(outer_bbox, rb_offset, sx, sy)
ValidatorRestoreRoi ==
    /\ roi_args # <<>>
    /\ roi_result["validator"] = None
    /\ roi_result' = [roi_result EXCEPT !["validator"] =
            Some(validator_restore_roi(roi_args.outer_bbox, roi_args.rb_offset,
                                       roi_args.sx, roi_args.sy))]
    /\ RoiUnchanged
\* AnchorFirstLocator._restore_roi(outer_bbox, rb_offset, sx, sy)
LocatorRestoreRoi ==
    /\ roi_args # <<>>
    /\ roi_result["locator"] = None
    /\ roi_result' = [roi_result EXCEPT !["locator"] =
            Some(restore_roi(roi_args.outer_bbox, roi_args.rb_offset,
                             roi_args.sx, roi_args.sy))]
    /\ RoiUnchanged
\* TitleblockExtractor._restore_roi(outer_bbox, rb_offset, sx, sy)
ExtractorRestoreRoi ==
    /\ roi_args # <<>>
    /\ roi_result["extractor"] = None
    /\ roi_result' = [roi_result EXCEPT !["extractor"] =
            Some(titleblock_restore_roi(roi_args.outer_bbox, roi_args.rb_offset,
                                        roi_args.sx, roi_args.sy))]
    /\ RoiUnchanged
RestoreRoi == ValidatorRestoreRoi \/ LocatorRestoreRoi \/ ExtractorRestoreRoi

\* stage runs: a running job reaches one of the three per-item stages with up
\* to MaxStageItems files or frames, each of which converts, is detected or is
\* extracted, or raises
StageItem(k, raises_) ==
    [name |-> <<"item", k>>, raises |-> raises_,
     runtime |-> [frame_id |-> k, flags |-> <<>>]]
InitStage ==
    \E n \in 0..MaxStageItems :
    \E r \in [1..n -> BOOLEAN] :
        /\ pc = "init"
        /\ stage_job = Some(update_progress(mark_running(QueuedJob, 0),
                                            fmt(MSG_JOB_STARTED, "")))
        /\ stage_items = List([k \in 1..n |-> StageItem(k, r[k])])
        /\ stage_result = None
        /\ GroupIdle
        /\ ValidateIdle
        /\ FitIdle
        /\ LocateIdle
        /\ DetectIdle
        /\ ExtractIdle
        /\ PageIdle
        /\ FinderIdle
        /\ JobIdle
        /\ FlagIdle
        /\ DocIdle
        /\ RoiIdle
        /\ ScanIdle
        /\ CancelIdle

StageUnchanged ==
    UNCHANGED <<stage_job, stage_items, groupVars, validateVars, fitVars, locateVars,
                detectVars, extractVars, pageVars, finderVars, jobVars,
                flagVars, docVars, roiVars,
                scanVars,
                cancelVars>>
\* _execute_stage(job, CONVERT_DWG_TO_DXF, context) within execute
ExecuteStageConvert ==
    /\ pc = "init"
    /\ stage_job # None
    /\ stage_result' = Some(stage_left(
            stage_convert(stage_entered(Val(stage_job), DELIVERABLE_STAGES[2]), stage_items),
            DELIVERABLE_STAGES[2], 1))
    /\ pc' = "done"
    /\ StageUnchanged
\* _execute_stage(job, DETECT_FRAMES, context) within execute
ExecuteStageDetect ==
    /\ pc = "init"
    /\ stage_job # None
    /\ stage_result' = Some(stage_left(
            stage_detect_frames(stage_entered(Val(stage_job), DELIVERABLE_STAGES[3]),
                                stage_items),
            DELIVERABLE_STAGES[3], 1))
    /\ pc' = "done"
    /\ StageUnchanged
\* _execute_stage(job, EXTRACT_TITLEBLOCK_FIELDS, context) within execute
ExecuteStageExtract ==
    /\ pc = "init"
    /\ stage_job # None
    /\ stage_result' = Some(stage_left(
            stage_extract_fields(stage_entered(Val(stage_job), DELIVERABLE_STAGES[6]),
                                 stage_items),
            DELIVERABLE_STAGES[6], 1))
    /\ pc' = "done"
    /\ StageUnchanged
ExecuteStage == ExecuteStageConvert \/ ExecuteStageDetect \/ ExecuteStageExtract

\* scanning runs: a drawing whose blocks A and B insert each other, whose
\* block C holds an empty text, a blank text, a line and an insert of D with
\* two attributes (one blank), and whose block D holds a text; the model space
\* holds up to MaxScanEntities of: texts (one empty, one padded), a line and
\* inserts of A, of C and of D
ScanText(tp_, s) == [tp |-> tp_, text |-> s, attribs |-> <<>>, block |-> ""]
InsertEntity(name, attribs_) ==
    [tp |-> "INSERT", text |-> <<>>, attribs |-> attribs_, block |-> name]
LineEntity == [tp |-> "LINE", text |-> <<>>, attribs |-> <<>>, block |-> ""]
ScanBlocks ==
    [name \in {"A", "B", "C", "D"} |->
        IF name = "A" THEN <<ScanText("TEXT", <<"a">>), InsertEntity("B", <<>>)>>
        ELSE IF name = "B" THEN <<InsertEntity("A", <<>>), ScanText("MTEXT", <<"b">>)>>
        ELSE IF name = "C"
        THEN <<ScanText("TEXT", <<>>), ScanText("MTEXT", <<" ">>), LineEntity,
               InsertEntity("D", <<ScanText("ATTRIB", <<"t">>),
                                   ScanText("ATTRIB", <<" ">>)>>)>>
        ELSE <<ScanText("TEXT", <<"d">>)>>]
ScanPool ==
    <<ScanText("TEXT", <<"m">>), ScanText("TEXT", <<>>),
      ScanText("MTEXT", <<" ", "p", " ">>), LineEntity,
      InsertEntity("A", <<ScanText("ATTRIB", <<"t">>)>>),
      InsertEntity("C", <<>>), InsertEntity("D", <<>>)>>
InitScan ==
    \E msp \in SubLists(ScanPool, MaxScanEntities) :
        /\ pc = "init"
        /\ scan_msp = msp
        /\ scan_stack = [k \in 1..Len(msp) |-> [ent |-> msp[k], depth |-> 0]]
        /\ scan_visited = <<>>
        /\ scan_items = <<>>
        /\ GroupIdle
        /\ ValidateIdle
        /\ FitIdle
        /\ LocateIdle
        /\ DetectIdle
        /\ ExtractIdle
        /\ PageIdle
        /\ FinderIdle
        /\ JobIdle
        /\ FlagIdle
        /\ DocIdle
        /\ RoiIdle
        /\ StageIdle
        /\ CancelIdle

ScanUnchanged ==
    UNCHANGED <<scan_msp, groupVars, validateVars, fitVars, locateVars,
                detectVars, extractVars, pageVars, finderVars, jobVars,
                flagVars, docVars, roiVars, stageVars,
                cancelVars>>
\* the next call of walk_entity: the first pending one, whose own calls come
\* before the other pending ones
WalkEntity ==
    /\ pc = "init"
    /\ scan_stack # <<>>
    /\ scan_stack' = walk_entity(ScanBlocks, Head(scan_stack).ent,
                                 Head(scan_stack).depth).calls \o Tail(scan_stack)
    /\ scan_items' = scan_items \o walk_entity(ScanBlocks, Head(scan_stack).ent,
                                                Head(scan_stack).depth).items
    /\ scan_visited' =
            IF walk_entity(ScanBlocks, Head(scan_stack).ent, Head(scan_stack).depth).visited
            THEN Append(scan_visited, [tp |-> Head(scan_stack).ent.tp,
                                       depth |-> Head(scan_stack).depth])
            ELSE scan_visited
    /\ UNCHANGED pc
    /\ ScanUnchanged
\* the generator is exhausted
ScanEnd ==
    /\ pc = "init"
    /\ scan_stack = <<>>
    /\ pc' = "scanned"
    /\ UNCHANGED <<scan_stack, scan_visited, scan_items>>
    /\ ScanUnchanged
IterTextItems == WalkEntity \/ ScanEnd

\* cancelling runs: a job as create_job queued it is executed while
\* cancel_job is called on it up to MaxCancelCalls times, before, between and
\* after the steps of execute
InitCancel ==
    /\ pc = "init"
    /\ job = Some(QueuedJob)
    /\ next_stage = 0
    /\ stage_log = <<>>
    /\ outcome = None
    /\ cancel_log = <<>>
    /\ GroupIdle
    /\ ValidateIdle
    /\ FitIdle
    /\ LocateIdle
    /\ DetectIdle
    /\ ExtractIdle
    /\ PageIdle
    /\ FinderIdle
    /\ FlagIdle
    /\ DocIdle
    /\ RoiIdle
    /\ StageIdle
    /\ ScanIdle

\* JobManager.cancel_job(job_id) for the job being executed
CancelJob ==
    /\ job # None
    /\ Len(cancel_log) < MaxCancelCalls
    /\ job' = Some(cancel_job(Val(job)).job)
    /\ cancel_log' = Append(cancel_log,
            [before |-> Val(job), after |-> cancel_job(Val(job)).job,
             returned |-> cancel_job(Val(job)).returned])
    /\ UNCHANGED <<pc, next_stage, stage_log, outcome, groupVars, validateVars, fitVars,
                   locateVars, detectVars, extractVars, pageVars, finderVars,
                   flagVars, docVars, roiVars, stageVars, scanVars>>
ExecuteOrCancel == Execute \/ CancelJob

\* ======================================================== specifications
SpecGroup == InitLayout /\ [][GroupA4Pages]_vars
SpecMaster == InitTitle /\ [][GroupA4Pages]_vars
SpecValidate == InitValidate /\ [][ValidateConsistency]_vars
SpecFit == InitFit /\ [][Fit]_vars
SpecLocate == InitLocate /\ [][LocateFrames]_vars
SpecLocateA4 == InitLocateA4 /\ [][LocateFrames]_vars
SpecDetect == InitDetect /\ [][DetectFrames]_vars
SpecExternal == InitExternal /\ [][ExtractFields]_vars
SpecExtract == InitExtract /\ [][ExtractFields]_vars
SpecPageInfo == InitPageInfo /\ [][ParsePageInfo]_vars
SpecFind == InitFind /\ [][FindRectangles]_vars
SpecExecute == InitExecute /\ [][Execute]_vars
SpecFlags == InitFlags /\ [][AddFlag]_vars
SpecSort == InitSort /\ [][GetSortedFrames]_vars
SpecRoi == InitRoi /\ [][RestoreRoi]_vars
SpecStage == InitStage /\ [][ExecuteStage]_vars
SpecCancel == InitCancel /\ [][ExecuteOrCancel]_vars
\* the scan is a generator the locator iterates to its end (list(...)), so a
\* call that can be made is made
SpecScan == InitScan /\ [][IterTextItems]_vars /\ WF_vars(IterTextItems)

\* ================================================================ claims

\* ---- vocabulary of the claims about grouping
FrameIds(fs) == {fs[k].runtime.frame_id : k \in 1..Len(fs)}
\* the page slots <<s, p>> of the returned sheet-sets
PageSlots ==
    {sp \in (1..Len(sheet_sets)) \X (1..Len(frames)) :
        sp[2] <= Len(sheet_sets[sp[1]].pages)}
SlotsOfFrame(id) ==
    {sp \in PageSlots : sheet_sets[sp[1]].pages[sp[2]].of_frame = id}
PageFrames(ss) == {ss.pages[p].of_frame : p \in 1..Len(ss.pages)}
\* the A4 frames, by position in the input
A4Positions ==
    {k \in 1..Len(frames) : frames[k].runtime.paper_variant_id = Some("CNPE_A4")}
\* the gap between two boxes on each axis, and the neighbor relation as the
\* claim states it for the factor 1/2: both gaps strictly below half the
\* smallest of the four dimensions
GapX(b1, b2) == Max2(0, Max2(b1.xmin, b2.xmin) - Min2(b1.xmax, b2.xmax))
GapY(b1, b2) == Max2(0, Max2(b1.ymin, b2.ymin) - Min2(b1.ymax, b2.ymax))
MinDim(b1, b2) ==
    Min2(Min2(width(b1), width(b2)), Min2(height(b1), height(b2)))
StatedNeighbors(b1, b2) ==
    2 * GapX(b1, b2) < MinDim(b1, b2) /\ 2 * GapY(b1, b2) < MinDim(b1, b2)
LinkedPositions(i, j) ==
    i # j /\ StatedNeighbors(frames[i].runtime.outer_bbox, frames[j].runtime.outer_bbox)
\* the A4 positions linked to position k by a chain of neighbor pairs
RECURSIVE Chain(_)
Chain(S) ==
    LET T == S \cup {j \in A4Positions : \E i \in S : LinkedPositions(i, j)}
    IN IF T = S THEN S ELSE Chain(T)
Component(k) == Chain({k})

\* C1: group_a4_pages conserves frames. Every input frame is either in the
\* returned flat list or a page of exactly one returned sheet-set, never both
\* and never neither (so len(remaining) + sum of len(pages) = len(frames));
\* the flat list keeps the input order; non-A4 frames and A4 frames without
\* an A4 neighbor are in the flat list; with fewer than two A4 frames the
\* flat list is the whole input and no sheet-set is returned.
C1_FramesConserved ==
    pc = "grouped" =>
        LET rem == FrameIds(remaining_frames)
            Kept(f) == f.runtime.frame_id \in rem
        IN /\ \A k \in 1..Len(frames) :
                LET id == frames[k].runtime.frame_id
                IN \/ id \in rem /\ SlotsOfFrame(id) = {}
                   \/ id \notin rem /\ Cardinality(SlotsOfFrame(id)) = 1
           /\ Len(remaining_frames) + Cardinality(PageSlots) = Len(frames)
           /\ remaining_frames = SelectSeq(frames, Kept)
           /\ \A k \in 1..Len(frames) :
                (k \notin A4Positions \/ Component(k) = {k})
                    => frames[k].runtime.frame_id \in rem
           /\ Cardinality(A4Positions) < 2
                => remaining_frames = frames /\ sheet_sets = <<>>

\* C1 witness: a call that absorbed a cluster into a sheet-set and left
\* another frame in the flat list.
C1_Witness ==
    /\ pc = "grouped"
    /\ Len(sheet_sets) = 1
    /\ Len(remaining_frames) = 1
    /\ Len(frames) = 3

\* ---- vocabulary of the claims about the master page
KeyFields == {"engineering_no", "internal_code", "external_code", "page_total"}
StatedScore(f) ==
    Cardinality({k \in KeyFields : f.titleblock[k] # None})
        + (IF f.titleblock.page_index = Some(1) THEN 2 ELSE 0)
\* the first frame of the cluster, in encounter order, with the highest score
FirstBest(cluster) ==
    LET j == CHOOSE j \in 1..Len(cluster) :
                /\ \A i \in 1..Len(cluster) :
                        StatedScore(cluster[i]) <= StatedScore(cluster[j])
                /\ \A i \in 1..(j - 1) :
                        StatedScore(cluster[i]) < StatedScore(cluster[j])
    IN cluster[j]
TitlePages(ss) == {p \in 1..Len(ss.pages) : ss.pages[p].has_titleblock}
\* the cluster a sheet-set was built from (cluster_id is its position)
ClusterOf(ss) == clusters[ss.cluster_id]

\* C2: the master of a cluster is the frame with the highest score (populated
\* fields among engineering_no, internal_code, external_code, page_total,
\* plus 2 when page_index = 1), the first such frame in encounter order; a
\* non-empty cluster always has a master.
C2_MasterIsFirstBest ==
    pc = "grouped" =>
        /\ \A c \in 1..Len(clusters) :
                identify_master(clusters[c]) = Some(FirstBest(clusters[c]))
        /\ \A s \in 1..Len(sheet_sets) :
                \A p \in TitlePages(sheet_sets[s]) :
                    sheet_sets[s].pages[p].frame_meta
                        = Some(FirstBest(ClusterOf(sheet_sets[s])))

\* C2 witness: a three-frame cluster in which a later frame with
\* page_index = 1 and two populated key fields is the master, ahead of an
\* earlier frame with page_index = 3 and one populated field.
C2_Witness ==
    /\ pc = "grouped"
    /\ Len(frames) = 3
    /\ frames[1].titleblock.page_index = Some(3)
    /\ StatedScore(frames[1]) = 1
    /\ frames[2].titleblock.page_index = Some(1)
    /\ StatedScore(frames[2]) = 4
    /\ StatedScore(frames[3]) = 4
    /\ Len(sheet_sets) = 1
    /\ \E p \in TitlePages(sheet_sets[1]) :
            sheet_sets[1].pages[p].frame_meta = Some(frames[2])

\* C3 (as stated): every returned sheet-set has exactly one page with
\* has_titleblock, that page owns the master's FrameMeta and no other page
\* owns one, and master_page is set and is that page.
C3_MasterPageSet ==
    pc = "grouped" =>
        \A s \in 1..Len(sheet_sets) :
            LET ss == sheet_sets[s]
            IN /\ Cardinality(TitlePages(ss)) = 1
               /\ \A p \in 1..Len(ss.pages) :
                    IF p \in TitlePages(ss)
                    THEN /\ ss.pages[p].frame_meta = Some(FirstBest(ClusterOf(ss)))
                         /\ ss.master_page = Some(ss.pages[p])
                    ELSE ss.pages[p].frame_meta = None

\* the positions of the component of each position (empty for a non-A4 frame)
Components ==
    List([k \in 1..Len(frames) |-> IF k \in A4Positions THEN Component(k) ELSE {}])

\* C7: _build_clusters partitions the A4 frames into the connected components
\* of the neighbor graph (every A4 frame in exactly one cluster, visited
\* once; same cluster iff linked by a chain of neighbor pairs), and
\* group_a4_pages turns every component of two or more frames, and no
\* component of one, into exactly one sheet-set.
C7_ClustersAreComponents ==
    LET a4 == filter_a4(frames)
        cls == build_clusters(a4)
        ids == List([c \in 1..Len(cls) |-> FrameIds(cls[c])])
        comps == Components
        Ids(c) == ids[c]
        ComponentIds(k) == {frames[j].runtime.frame_id : j \in comps[k]}
    IN /\ \A c \in 1..Len(cls) : Cardinality(Ids(c)) = Len(cls[c])
       /\ \A k \in A4Positions :
            \E c \in 1..Len(cls) :
                /\ Ids(c) = ComponentIds(k)
                /\ \A d \in 1..Len(cls) :
                        frames[k].runtime.frame_id \in Ids(d) => d = c
       /\ \A c \in 1..Len(cls) : \E k \in A4Positions : Ids(c) = ComponentIds(k)
       /\ pc = "grouped" =>
            /\ Len(a4) >= 2 => clusters = cls
            /\ \A k \in A4Positions :
                Cardinality({s \in 1..Len(sheet_sets) :
                                PageFrames(sheet_sets[s]) = ComponentIds(k)})
                    = (IF Cardinality(comps[k]) >= 2 THEN 1 ELSE 0)
            /\ \A s \in 1..Len(sheet_sets) :
                \E k \in A4Positions :
                    /\ PageFrames(sheet_sets[s]) = ComponentIds(k)
                    /\ Cardinality(comps[k]) >= 2

\* C7 witness: three A4 frames in a chain whose ends are not neighbors of one
\* another, grouped into one sheet-set of three pages.
C7_Witness ==
    /\ pc = "grouped"
    /\ Len(frames) = 3
    /\ A4Positions = {1, 2, 3}
    /\ ~LinkedPositions(1, 2)
    /\ LinkedPositions(1, 3)
    /\ LinkedPositions(3, 2)
    /\ Len(sheet_sets) = 1
    /\ Len(sheet_sets[1].pages) = 3

\* C6: the A4 neighbor relation is symmetric and holds iff both axis gaps are
\* strictly below 0.5 x the smallest of the four dimensions: frames touching
\* edge to edge are neighbors, frames further apart than that on an axis are
\* not; the grouper and the anchor-first locator apply the same relation,
\* and two A4 frames are grouped exactly when they are neighbors.
C6_NeighborRelation ==
    /\ pc = "init" =>
        \A i \in 1..Len(frames) : \A j \in i..Len(frames) :
            LET f1 == frames[i]
                f2 == frames[j]
                b1 == f1.runtime.outer_bbox
                b2 == f2.runtime.outer_bbox
            IN /\ {frames_are_neighbors(f1, f2, GapFactorNum, GapFactorDen),
                    frames_are_neighbors(f2, f1, GapFactorNum, GapFactorDen),
                    are_neighbors([bbox |-> b1], [bbox |-> b2]),
                    are_neighbors([bbox |-> b2], [bbox |-> b1])}
                        = {StatedNeighbors(b1, b2)}
               /\ GapX(b1, b2) = 0 /\ GapY(b1, b2) = 0
                    => frames_are_neighbors(f1, f2, GapFactorNum, GapFactorDen)
               /\ (2 * GapX(b1, b2) > MinDim(b1, b2)
                        \/ 2 * GapY(b1, b2) > MinDim(b1, b2))
                    => ~frames_are_neighbors(f1, f2, GapFactorNum, GapFactorDen)
    /\ (pc = "grouped" /\ Len(frames) = 2 /\ A4Positions = {1, 2})
        => (Len(sheet_sets) = 1 <=> LinkedPositions(1, 2))

\* C6 witness: two A4 frames touching edge to edge (the right edge of one is
\* the left edge of the other), grouped into one sheet-set.
C6_Witness ==
    /\ pc = "grouped"
    /\ Len(frames) = 2
    /\ A4Positions = {1, 2}
    /\ frames[1].runtime.outer_bbox.xmax = frames[2].runtime.outer_bbox.xmin
    /\ frames[1].runtime.outer_bbox.ymin = frames[2].runtime.outer_bbox.ymin
    /\ Len(sheet_sets) = 1

\* ---- vocabulary of the claims about validate_consistency
PageIndices(ss) == {ss.pages[p].page_index : p \in 1..Len(ss.pages)}
\* the page indices are exactly 1..page_total, each once
IndicesExact(ss) ==
    Len(ss.pages) = ss.page_total /\ PageIndices(ss) = 1..ss.page_total
IndexRepeats(ss) ==
    \E p, q \in 1..Len(ss.pages) :
        p # q /\ ss.pages[p].page_index = ss.pages[q].page_index
Returned(flag) == \E i \in 1..Len(new_flags) : new_flags[i] = flag

\* C4: validate_consistency returns the page-count flag iff len(pages) #
\* page_total; exactly one of the duplicate-index and non-contiguous flags iff
\* the sorted indices differ from 1..page_total (duplicate when an index
\* repeats, non-contiguous otherwise, never both); the first-page flag iff
\* master_page is set and its page_index # 1; and the empty list when the
\* indices are exactly 1..page_total and the master (if any) has index 1.
C4_ValidateFlags ==
    pc = "validated" =>
        /\ Returned(FLAG_PAGE_COUNT) <=> Len(self_sheet.pages) # self_sheet.page_total
        /\ (Returned(FLAG_INDEX_DUPLICATE) \/ Returned(FLAG_INDEX_GAP))
                <=> ~IndicesExact(self_sheet)
        /\ ~(Returned(FLAG_INDEX_DUPLICATE) /\ Returned(FLAG_INDEX_GAP))
        /\ ~IndicesExact(self_sheet)
                => (Returned(FLAG_INDEX_DUPLICATE) <=> IndexRepeats(self_sheet))
        /\ Returned(FLAG_FIRST_PAGE)
                <=> (self_sheet.master_page # None
                        /\ Val(self_sheet.master_page).page_index # 1)
        /\ (IndicesExact(self_sheet)
                /\ (self_sheet.master_page = None
                        \/ Val(self_sheet.master_page).page_index = 1))
                => new_flags = <<>>
        /\ Len(new_flags)
                = Cardinality({new_flags[i] : i \in 1..Len(new_flags)})

\* C4 witness: pages [1, 1, 3] with page_total = 3 return the duplicate-index
\* flag alone.
C4_Witness ==
    /\ pc = "validated"
    /\ self_sheet.page_total = 3
    /\ Len(self_sheet.pages) = 3
    /\ self_sheet.pages[1].page_index = 1
    /\ self_sheet.pages[2].page_index = 1
    /\ self_sheet.pages[3].page_index = 3
    /\ new_flags = <<FLAG_INDEX_DUPLICATE>>

\* ---- C5 vocabulary: the pairings of the observed rectangle with the catalog,
\* stated in integers. With a = W_obs * H_std and b = H_obs * W_std (both
\* positive), sx / sy = a / b, hence |sx - sy| / max(sx, sy) = |a - b| / max(a, b)
\* and the max relative error at the mean scale is |a - b| / (2 * min(a, b))
ObsW == bbox_obs.xmax - bbox_obs.xmin
ObsH == bbox_obs.ymax - bbox_obs.ymin
Pairings ==
    {p \in (1..Len(paper_variants)) \X BOOLEAN :
        /\ paper_variants[p[1]].W # 0
        /\ paper_variants[p[1]].H # 0
        /\ paper_variants[p[1]].profile # ""
        /\ (p[2] => fitter.allow_rotation)}
StdW(p) == IF p[2] THEN paper_variants[p[1]].H ELSE paper_variants[p[1]].W
StdH(p) == IF p[2] THEN paper_variants[p[1]].W ELSE paper_variants[p[1]].H
CrossA(p) == ObsW * StdH(p)
CrossB(p) == ObsH * StdW(p)
CrossDiff(p) == IF CrossA(p) >= CrossB(p) THEN CrossA(p) - CrossB(p)
                ELSE CrossB(p) - CrossA(p)
Qualifies(p) ==
    fitter.uniform_scale_required
        => UniformScaleTolDen * CrossDiff(p)
               <= UniformScaleTolNum * Max2(CrossA(p), CrossB(p))
Qualifying == {p \in Pairings : Qualifies(p)}
\* the error of a pairing under the configured metric (max relative error by
\* default), as the pair <<numerator, denominator>>
StatedError(p) ==
    IF fitter.error_metric = MAX_REL_ERROR
    THEN <<CrossDiff(p), 2 * Min2(CrossA(p), CrossB(p))>>
    ELSE <<CrossDiff(p), Max2(CrossA(p), CrossB(p))>>
ErrorLe(e, f) == e[1] * f[2] <= f[1] * e[2]
IsError(r, e) == r.n * e[2] = e[1] * r.d
IsScale(r, num, den) == r.n * den = num * r.d /\ r.n > 0 /\ r.d > 0
\* the result row r is the pairing p
IsPairing(r, p) ==
    /\ r.variant_id = paper_variants[p[1]].id
    /\ r.profile = paper_variants[p[1]].profile
    /\ IsScale(r.sx, ObsW, StdW(p))
    /\ IsScale(r.sy, ObsH, StdH(p))
    /\ IsError(r.error, StatedError(p))
ExactVariants ==
    {k \in 1..Len(paper_variants) :
        /\ <<k, FALSE>> \in Pairings
        /\ paper_variants[k].W = ObsW
        /\ paper_variants[k].H = ObsH}
\* every qualifying pairing is evaluated and nothing else is
FitEvaluatesAll ==
    /\ \A p \in Qualifying :
            \E i \in 1..Len(fit_all_results) : IsPairing(fit_all_results[i], p)
    /\ \A i \in 1..Len(fit_all_results) :
            \E p \in Qualifying : IsPairing(fit_all_results[i], p)
\* None iff nothing qualifies, else a qualifying pairing of minimal error
FitReturnsMinimal ==
    /\ fit_result = None <=> Qualifying = {}
    /\ fit_result # None =>
            \E p \in Qualifying :
                /\ IsPairing(Val(fit_result), p)
                /\ \A q \in Qualifying : ErrorLe(StatedError(p), StatedError(q))
\* some pairing other than a variant of the observed size is an exact scaled
\* copy of the observed rectangle
ScaledCopy ==
    \E q \in Qualifying : CrossDiff(q) = 0 /\ StdW(q) # ObsW

AtMost(r, v) == r.n <= v * r.d
AtLeast(r, v) == r.n >= v * r.d
PrimaryHits == SelectSeq(text_items, LAMBDA t : locator.primary_text \in t.text)
SecondaryTexts == SelectSeq(text_items, LAMBDA t : locator.secondary_text \in t.text)
\* the text lies in the ROI: its insertion point is inside, or its box overlaps
Holds(roi, t) ==
    \/ /\ AtMost(roi.xmin, t.x) /\ AtLeast(roi.xmax, t.x)
       /\ AtMost(roi.ymin, t.y) /\ AtLeast(roi.ymax, t.y)
    \/ /\ t.bbox # <<>>
       /\ AtMost(roi.xmin, t.bbox[1].xmax) /\ AtLeast(roi.xmax, t.bbox[1].xmin)
       /\ AtMost(roi.ymin, t.bbox[1].ymax) /\ AtLeast(roi.ymax, t.bbox[1].ymin)
HoldsPrimary(i) ==
    \E k \in 1..Len(PrimaryHits) : Holds(candidates[i].anchor_roi, PrimaryHits[k])
HoldsSecondary(i) ==
    \E k \in 1..Len(SecondaryTexts) : Holds(candidates[i].anchor_roi, SecondaryTexts[k])
\* the candidates matching primary hit k under the configured policy
Matching(k) ==
    {i \in 1..Len(candidates) :
        /\ Holds(candidates[i].anchor_roi, PrimaryHits[k])
        /\ (locator.match_policy = POLICY_DOUBLE => HoldsSecondary(i))}
BoxArea(b) == (b.xmax - b.xmin) * (b.ymax - b.ymin)
\* (fit_error, area) of c is lexicographically <= that of d
KeyAtMost(c, d) ==
    \/ c.fit_error.n * d.fit_error.d < d.fit_error.n * c.fit_error.d
    \/ /\ c.fit_error.n * d.fit_error.d = d.fit_error.n * c.fit_error.d
       /\ BoxArea(c.bbox) <= BoxArea(d.bbox)
A4Candidates == {i \in 1..Len(candidates) : candidates[i].paper_variant_id \in A4Ids}
\* the A4 candidates linked to those of S by a chain of neighbor pairs
RECURSIVE CandidateChain(_)
CandidateChain(S) ==
    LET T == S \cup {j \in A4Candidates :
                        \E i \in S : i # j /\ StatedNeighbors(candidates[i].bbox,
                                                              candidates[j].bbox)}
    IN IF T = S THEN S ELSE CandidateChain(T)
AdjacencyCluster(i) == IF i \in A4Candidates THEN CandidateChain({i}) ELSE {i}
LocatedBoxes == {located[k].runtime.outer_bbox : k \in 1..Len(located)}
SelectedBoxes ==
    {selections[k][1].bbox : k \in {j \in 1..Len(selections) : selections[j] # <<>>}}

\* C8: after locate_frames (with at least one candidate built), each primary
\* anchor hit with a matching candidate has selected a candidate that matches
\* it and whose (fit_error, area) is lexicographically minimal among the
\* candidates matching it, and that candidate is among the returned frames; a
\* hit without a matching candidate selects nothing, the hits after it are
\* still processed, and no frame is returned that is neither selected nor in
\* the A4 adjacency cluster of a selected candidate.
C8_SelectsMinimalKey ==
    (pc = "located" /\ candidates # <<>>) =>
        /\ Len(selections) = Len(PrimaryHits)
        /\ \A k \in 1..Len(PrimaryHits) :
            /\ Matching(k) = {} => selections[k] = <<>>
            /\ Matching(k) # {} =>
                /\ selections[k] # <<>>
                /\ \E i \in Matching(k) :
                    /\ candidates[i] = selections[k][1]
                    /\ \A j \in Matching(k) : KeyAtMost(candidates[i], candidates[j])
                /\ selections[k][1].bbox \in LocatedBoxes
        /\ \A b \in LocatedBoxes :
            \E i \in 1..Len(candidates) :
                /\ candidates[i].bbox \in SelectedBoxes
                /\ \E j \in AdjacencyCluster(i) : candidates[j].bbox = b
\* a hit without a match is followed by a hit that two candidates match, and
\* the one selected is not the one of smallest area
C8_Witness ==
    /\ pc = "located"
    /\ \E k1, k2 \in 1..Len(selections) :
        /\ k1 < k2
        /\ selections[k1] = <<>>
        /\ selections[k2] # <<>>
        /\ \E j \in Matching(k2) :
            /\ BoxArea(candidates[j].bbox) < BoxArea(selections[k2][1].bbox)
            /\ selections[k2][1].bbox \in LocatedBoxes

\* the candidate is one that the policy accepts for some primary hit
Accepted(i) ==
    /\ HoldsPrimary(i)
    /\ (locator.match_policy = POLICY_DOUBLE => HoldsSecondary(i))

\* C9: every frame returned by locate_frames is a candidate whose anchor ROI
\* holds a primary anchor text and, under the double-hit policy, also a
\* secondary anchor text, or an A4 candidate of the adjacency cluster of such
\* a candidate; under the double-hit policy no candidate whose ROI holds only
\* the primary anchor is selected; under the any-hit policy a primary hit is
\* given a candidate as soon as one candidate's ROI holds it.
C9_MatchPolicy ==
    pc = "located" =>
        /\ \A b \in LocatedBoxes :
            \E i \in 1..Len(candidates) :
                /\ Accepted(i)
                /\ \E j \in AdjacencyCluster(i) : candidates[j].bbox = b
        /\ \A k \in 1..Len(selections) :
            selections[k] # <<>> =>
                \E i \in 1..Len(candidates) :
                    /\ candidates[i] = selections[k][1]
                    /\ Holds(candidates[i].anchor_roi, PrimaryHits[k])
                    /\ (locator.match_policy = POLICY_DOUBLE => HoldsSecondary(i))
        /\ (locator.match_policy = POLICY_ANY /\ candidates # <<>>) =>
            \A k \in 1..Len(PrimaryHits) :
                (\E i \in 1..Len(candidates) :
                    Holds(candidates[i].anchor_roi, PrimaryHits[k]))
                    => selections[k] # <<>>
\* under the double-hit policy a sheet with both anchors is returned while a
\* candidate whose ROI holds the primary anchor only is not
C9_Witness ==
    /\ pc = "located"
    /\ locator.match_policy = POLICY_DOUBLE
    /\ located # <<>>
    /\ \E i \in 1..Len(candidates) :
        /\ HoldsPrimary(i)
        /\ ~HoldsSecondary(i)
        /\ candidates[i].bbox \notin LocatedBoxes

\* ---- C10 vocabulary
\* the boxes of the closed polylines of at least 4 points
CandidateBoxes ==
    {BBox(ListMin(List([i \in 1..Len(polylines[k].points) |-> polylines[k].points[i][1]])),
          ListMin(List([i \in 1..Len(polylines[k].points) |-> polylines[k].points[i][2]])),
          ListMax(List([i \in 1..Len(polylines[k].points) |-> polylines[k].points[i][1]])),
          ListMax(List([i \in 1..Len(polylines[k].points) |-> polylines[k].points[i][2]]))) :
        k \in {j \in 1..Len(polylines) :
                polylines[j].closed /\ Len(polylines[j].points) >= 4}}
\* the frame carries a fit of its box: a catalog variant, as drawn or rotated,
\* of which the box is a uniformly scaled copy within 2%
PassedPaperFit(f) ==
    \E k \in 1..Len(detector.paper_variants) : \E rot \in BOOLEAN :
        LET v == detector.paper_variants[k]
            b == f.runtime.outer_bbox
            W_std == IF rot THEN v.H ELSE v.W
            H_std == IF rot THEN v.W ELSE v.H
            a == (b.xmax - b.xmin) * H_std
            c == (b.ymax - b.ymin) * W_std
        IN /\ f.runtime.paper_variant_id = <<v.id>>
           /\ f.runtime.roi_profile_id = <<v.profile>>
           /\ f.runtime.sx.n * W_std = (b.xmax - b.xmin) * f.runtime.sx.d
           /\ f.runtime.sy.n * H_std = (b.ymax - b.ymin) * f.runtime.sy.d
           /\ FitTolDen * (Max2(a, c) - Min2(a, c)) < FitTolNum * Max2(a, c)
\* AnchorValidator.validate accepts the frame: an anchor text has its insertion
\* point inside the anchor ROI restored from the frame's box, scales and profile
PassedAnchorValidation(f) ==
    validate(Validator, msp_texts, f.runtime.outer_bbox, f.runtime.sx,
             f.runtime.sy, f.runtime.roi_profile_id)

\* C10: every frame returned by detect_frames comes from a candidate rectangle
\* that passed both paper fitting and anchor validation (an anchor text with
\* its insertion point inside the candidate's restored anchor ROI); a candidate
\* failing either check produces no frame.
C10_FramesAnchorValidated ==
    pc = "detected" =>
        \A k \in 1..Len(detected) :
            /\ detected[k].runtime.outer_bbox \in CandidateBoxes
            /\ PassedPaperFit(detected[k])
            /\ PassedAnchorValidation(detected[k])

\* ---- vocabulary of the claims about extraction
\* the document of the run, and the positions in it of the single-character
\* texts; the header is a text spelling DOC.NO
Document == Val(dxf_doc)
HeaderPositions ==
    {k \in 1..Len(Document) :
        keep_chars(upper(Val(Document[k].text)), UpperAlnum)
            = <<"D", "O", "C", "N", "O">>}
FragmentPositions ==
    {k \in 1..Len(Document) :
        /\ Len(Val(Document[k].text)) = 1
        /\ \A h \in HeaderPositions :
                Val(Document[k].insert).x > Val(Document[h].insert).x}
FragmentXs == {Val(Document[k].insert).x : k \in FragmentPositions}
FragmentAt(x) ==
    CHOOSE k \in FragmentPositions : Val(Document[k].insert).x = x
\* the characters of the fragments concatenated in ascending x-position
CodeByX ==
    LET xs == SortedSeq(FragmentXs)
    IN List([n \in 1..Len(xs) |-> Val(Document[FragmentAt(xs[n])].text)[1]])

\* C11 (as stated): for 19 single-character fragments with distinct
\* x-positions inside the external-code ROI, whatever their order in the
\* entity stream, external_code is the 19 characters concatenated in
\* ascending x-position (fragments left of a detected header excluded).
C11_ExternalCodeByX ==
    (pc = "extracted" /\ Cardinality(FragmentXs) = ExternalCodeLen)
        => \A c \in 1..Len(extract_calls) :
                /\ ~extract_calls[c].raised
                /\ extract_calls[c].after.titleblock.external_code = Some(CodeByX)

\* the frame of a call as it is before any extraction
Cleared(f) == [f EXCEPT !.titleblock = TitleblockFields, !.raw_extracts = <<>>]
\* what extract_fields leaves on a frame that was never extracted
FirstExtraction(f) == extract_fields(Val(extractor), dxf_doc, Cleared(f)).frame

\* C12: extract_fields is idempotent. Every call on the same unchanged
\* document and frame leaves the same TitleblockFields and raw extracts (and
\* raises iff the first call raised); what it leaves is what it leaves on a
\* frame with the same runtime that was never extracted, so it does not depend
\* on the title block of a previous extraction; the runtime is unchanged, and
\* a call that raises leaves the frame as it was.
C12_ExtractIdempotent ==
    \A c \in 1..Len(extract_calls) :
        LET call == extract_calls[c]
        IN /\ call.after.runtime = call.before.runtime
           /\ call.raised = extract_calls[1].raised
           /\ call.raised => call.after = call.before
           /\ ~call.raised =>
                /\ call.after.titleblock = extract_calls[1].after.titleblock
                /\ call.after.raw_extracts = extract_calls[1].after.raw_extracts
                /\ call.after.titleblock = FirstExtraction(call.before).titleblock
                /\ call.after.raw_extracts = FirstExtraction(call.before).raw_extracts

\* C12 witness: two calls on a frame that carried the title block of another
\* document; the first replaced it (the stale revision is gone, an internal
\* code and a page index were read) and the second left the same fields.
C12_Witness ==
    /\ Len(extract_calls) = 2
    /\ ~extract_calls[1].raised /\ ~extract_calls[2].raised
    /\ extract_calls[1].before.titleblock = StaleTitleblock
    /\ extract_calls[1].after.titleblock.revision = None
    /\ extract_calls[1].after.titleblock.internal_code # None
    /\ extract_calls[1].after.titleblock.page_index = Some(3)
    /\ extract_calls[2].before.titleblock = extract_calls[1].after.titleblock
    /\ extract_calls[2].after.titleblock = extract_calls[1].after.titleblock

\* the profile extract_fields looks up for a frame is one of the profiles
ProfileKnown(f) ==
    (IF TruthyStr(f.runtime.roi_profile_id)
     THEN Val(f.runtime.roi_profile_id) ELSE DEFAULT_PROFILE)
        \in DOMAIN Val(extractor).roi_profiles

\* C13 (as stated): per-field parse failures never raise. Whatever texts are
\* found in the ROIs of a readable document (missing text, pattern mismatch,
\* wrong length, a page-index token that is neither a number nor the letter
\* X), _parse_fields completes: the call does not raise and the frame
\* carries the parsed fields.
C13_ParseNeverRaises ==
    \A c \in 1..Len(extract_calls) :
        (dxf_doc # None /\ ProfileKnown(extract_calls[c].before))
            => /\ ~extract_calls[c].raised
               /\ extract_calls[c].after.raw_extracts # <<>>

\* ---- vocabulary of the claim about the page phrase
\* the ROI text: the texts of the ROI, a blank between them
RoiTextOfPage ==
    join(<<" ">>, List([k \in 1..Len(page_texts) |-> page_texts[k].text]))
Blank(s, a, b) == \A k \in a..b : s[k] \in Spaces
\* the value of a string of decimal digits
RECURSIVE Decimal(_)
Decimal(s) ==
    IF s = <<>> THEN 0
    ELSE digit_value(Head(s)) * pow10(Len(s) - 1) + Decimal(Tail(s))
\* the tokens <<a, b>> of s that stand between an opening character at i and
\* a closing "张" at j, blanks allowed on both sides of the token
TokensBetween(s, opening) ==
    {t \in (1..Len(s)) \X (1..Len(s)) :
        /\ t[1] <= t[2]
        /\ \E i \in 1..(t[1] - 1) : \E j \in (t[2] + 1)..Len(s) :
                /\ s[i] = opening /\ s[j] = ZHANG
                /\ Blank(s, i + 1, t[1] - 1) /\ Blank(s, t[2] + 1, j - 1)
        /\ \A k \in t[1]..t[2] : s[k] \notin Spaces \cup {opening, ZHANG}}
Token(s, t) == SubSeq(s, t[1], t[2])
IsNumber(w) == w # <<>> /\ \A k \in 1..Len(w) : w[k] \in Digits
IsLetterX(w) == w = <<"X">> \/ w = <<"x">>
\* the values N of the sub-phrases "共 N 张" and M of the sub-phrases
\* "第 M 张" in the text, X standing for 1
TotalValues(s) ==
    {Decimal(Token(s, t)) : t \in {u \in TokensBetween(s, GONG) : IsNumber(Token(s, u))}}
IndexValues(s) ==
    {IF IsLetterX(Token(s, t)) THEN 1 ELSE Decimal(Token(s, t)) :
        t \in {u \in TokensBetween(s, DI) :
                    IsNumber(Token(s, u)) \/ IsLetterX(Token(s, u))}}
\* an index token of digits and X's that is neither a number nor the letter X
MalformedIndex(s) ==
    \E t \in TokensBetween(s, DI) :
        /\ \A k \in t[1]..t[2] : s[k] \in IndexChars
        /\ ~IsNumber(Token(s, t)) /\ ~IsLetterX(Token(s, t))

\* the result is made of the sub-phrases of the text: the total is the N of
\* a sub-phrase "共 N 张" and the index the M of a sub-phrase "第 M 张" (M a
\* number, or the letter X for 1), each empty exactly when the text has no
\* such sub-phrase
PageInfoOfPhrases(r, s) ==
    /\ ~r.raised
    /\ r.total = None <=> TotalValues(s) = {}
    /\ r.total # None => Val(r.total) \in TotalValues(s)
    /\ r.index = None <=> IndexValues(s) = {}
    /\ r.index # None => Val(r.index) \in IndexValues(s)
\* on ROI text without a malformed index token the result is made of the
\* sub-phrases of the text
PageInfoOfWellFormed ==
    (pc = "parsed" /\ ~MalformedIndex(RoiTextOfPage))
        => PageInfoOfPhrases(Val(page_info), RoiTextOfPage)

\* C14: _parse_page_info returns (total=N, index=M) for ROI text containing
\* the phrase "共N张第M张" (blanks allowed between the tokens, N a number, M a
\* number or the letter X for 1), the value that is present and the other
\* empty when only one of the two sub-phrases is in the text, and
\* (empty, empty) when neither is.
C14_PageInfoParsed ==
    pc = "parsed" => PageInfoOfPhrases(Val(page_info), RoiTextOfPage)

\* C14 witness: the single text "共20张第X张" gives (20, 1).
C14_Witness ==
    /\ pc = "parsed"
    /\ Len(page_texts) = 1
    /\ page_texts[1].text = <<GONG, "2", "0", ZHANG, DI, "X", ZHANG>>
    /\ Val(page_info) = [raised |-> FALSE, total |-> Some(20), index |-> Some(1)]

\* ---- vocabulary of the claims about the sheet-sets of _process_cluster
\* the master frame of a sheet-set: the highest-scoring frame of its cluster
MasterOf(ss) == FirstBest(ClusterOf(ss))
FrameOfPage(ss, p) ==
    CHOOSE f \in {ClusterOf(ss)[k] : k \in 1..Len(ClusterOf(ss))} :
        f.runtime.frame_id = p.of_frame
Populated(o) == o # None /\ Val(o) # 0

\* C15: every sheet-set built by group_a4_pages whose master frame (the
\* highest-scoring frame of the cluster) has an extracted page_index other
\* than 1 carries the first-page-index flag.
C15_FirstPageFlagged ==
    pc = "grouped" =>
        \A s \in 1..Len(sheet_sets) :
            LET ss == sheet_sets[s]
                extracted == MasterOf(ss).titleblock.page_index
            IN (extracted # None /\ Val(extracted) # 1)
                    => \E k \in 1..Len(ss.flags) : ss.flags[k] = FLAG_FIRST_PAGE

C17_ValidateOnlyAppends ==
    [][(pc = "init" /\ pc' = "validated") =>
            /\ self_sheet'.page_total = self_sheet.page_total
            /\ self_sheet'.pages = self_sheet.pages
            /\ self_sheet'.master_page = self_sheet.master_page
            /\ self_sheet'.cluster_id = self_sheet.cluster_id
            /\ self_sheet'.flags = self_sheet.flags \o new_flags']_vars

\* C17 witness: a call on a sheet-set that had two flags and got three more,
\* its page_total still different from its number of pages.
C17_Witness ==
    /\ pc = "validated"
    /\ new_flags = <<FLAG_PAGE_COUNT, FLAG_INDEX_DUPLICATE, FLAG_FIRST_PAGE>>
    /\ self_sheet.flags = <<FLAG_FIRST_PAGE, FLAG_PAGE_COUNT>> \o new_flags
    /\ Len(self_sheet.pages) # self_sheet.page_total

\* ---- vocabulary of the claims about find_rectangles
Found == Val(found_rectangles).rectangles
MspPositions(dxftypes) ==
    {k \in 1..Len(msp_entities) : msp_entities[k].dxftype \in dxftypes}
\* a closed polyline whose points can be read: at least 4 of them, on exactly
\* two x and two y (the coordinates of the runs are whole numbers, further
\* apart than the tolerance)
ClosedPolygon(e) ==
    /\ IF e.dxftype = "LWPOLYLINE" THEN e.closed ELSE e.is_closed = Some(TRUE)
    /\ e.readable
    /\ Len(e.points) >= 4
    /\ Cardinality({e.points[k][1] : k \in 1..Len(e.points)}) = 2
    /\ Cardinality({e.points[k][2] : k \in 1..Len(e.points)}) = 2
Xs(e) == {e.points[k][1] : k \in 1..Len(e.points)}
Ys(e) == {e.points[k][2] : k \in 1..Len(e.points)}
SetMin(S) == CHOOSE x \in S : \A y \in S : x <= y
SetMax(S) == CHOOSE x \in S : \A y \in S : x >= y
BoxOf(e) ==
    BBox(RInt(SetMin(Xs(e))), RInt(SetMin(Ys(e))), RInt(SetMax(Xs(e))), RInt(SetMax(Ys(e))))
\* the closed-polygon candidates that pass the size filter
PassingPolygons ==
    {k \in MspPositions({"LWPOLYLINE", "POLYLINE"}) :
        /\ ClosedPolygon(msp_entities[k])
        /\ SetMax(Xs(msp_entities[k])) - SetMin(Xs(msp_entities[k])) >= DEFAULT_MIN_DIM
        /\ SetMax(Ys(msp_entities[k])) - SetMin(Ys(msp_entities[k])) >= DEFAULT_MIN_DIM}

\* C18: the rectangles find_rectangles returns are in non-increasing order
\* of area, each with xmin <= xmax, ymin <= ymax and width and height both
\* >= min_dim; when a closed-polygon candidate passed the size filter, the
\* rectangles returned are those candidates and no rectangle rebuilt from
\* line segments.
C18_RectanglesOrdered ==
    (pc = "found" /\ ~Val(found_rectangles).raised) =>
        /\ \A k \in 1..(Len(Found) - 1) :
                RLe(float_area(Found[k + 1]), float_area(Found[k]))
        /\ \A k \in 1..Len(Found) :
                /\ RLe(Found[k].xmin, Found[k].xmax)
                /\ RLe(Found[k].ymin, Found[k].ymax)
                /\ RLe(RInt(Val(finder).min_dim), RSub(Found[k].xmax, Found[k].xmin))
                /\ RLe(RInt(Val(finder).min_dim), RSub(Found[k].ymax, Found[k].ymin))
        /\ PassingPolygons # {} =>
                /\ Len(Found) = Cardinality(PassingPolygons)
                /\ {Found[k] : k \in 1..Len(Found)}
                        = {BoxOf(msp_entities[k]) : k \in PassingPolygons}

\* C18 witness: five lines rebuilt into three rectangles, returned largest
\* first (200 x 400, 200 x 250, 200 x 150).
C18_Witness ==
    /\ pc = "found"
    /\ MspPositions({"LINE"}) = 1..5
    /\ Found = <<BBox(RInt(0), RInt(0), RInt(200), RInt(400)),
                 BBox(RInt(0), RInt(150), RInt(200), RInt(400)),
                 BBox(RInt(0), RInt(0), RInt(200), RInt(150))>>

\* the model space without the entities whose geometry cannot be read
CanRead(e) == e.readable
ReadableEntities == SelectSeq(msp_entities, CanRead)

\* C19: an entity whose reading raises (a closed polyline whose points cannot
\* be read, a line whose endpoints cannot be read) is skipped: find_rectangles
\* does not raise and returns what it returns for the remaining entities.
C19_MalformedEntitySkipped ==
    pc = "found" =>
        /\ ~Val(found_rectangles).raised
        /\ Found = find_rectangles(Val(finder), ReadableEntities).rectangles

\* ---- vocabulary of the claim about execute
TheJob == Val(job)
Raised(k) == stage_log[k].raised
SomeStageRaised == \E k \in 1..Len(stage_log) : Raised(k)
LastStage == stage_log[Len(stage_log)]
JobHasFlag(flag) == \E k \in 1..Len(TheJob.flags) : TheJob.flags[k] = flag
\* a datetime of this execution (0 is the call of execute)
Fresh(t) == t # None /\ Val(t) >= 0
ExecuteOrderly ==
    \* RUNNING first
    /\ pc \in {"running", "done"} => Fresh(TheJob.started_at)
    /\ pc = "running" => TheJob.status = RUNNING
    /\ pc = "init" => stage_log = <<>>
    \* the stages in the order of DELIVERABLE_STAGES, each at most once, and
    \* none after one that raised
    /\ Len(stage_log) <= Len(DELIVERABLE_STAGES)
    /\ \A k \in 1..Len(stage_log) : stage_log[k].stage = DELIVERABLE_STAGES[k].name
    /\ \A k \in 1..(Len(stage_log) - 1) : ~Raised(k)
    \* no stage raised: every stage ran, SUCCEEDED, 100, finished_at
    /\ (pc = "done" /\ ~SomeStageRaised) =>
            /\ outcome = Some([raised |-> FALSE, error |-> None])
            /\ Len(stage_log) = Len(DELIVERABLE_STAGES)
            /\ TheJob.status = SUCCEEDED
            /\ TheJob.progress.percent = 100
            /\ Fresh(TheJob.finished_at)
    \* a stage raised: flagged, FAILED, the error recorded and raised again
    /\ SomeStageRaised =>
            /\ pc = "done"
            /\ outcome = Some([raised |-> TRUE, error |-> LastStage.error])
            /\ JobHasFlag(fmt(FLAG_STAGE_FAILED, LastStage.stage))
            /\ TheJob.status = FAILED
            /\ Fresh(TheJob.finished_at)
            /\ TheJob.errors # <<>>
            /\ TheJob.errors[Len(TheJob.errors)] = Val(LastStage.error)
ExecuteStep ==
    \* the error of a stage that raises is appended to errors, nothing else
    \* changes errors, and no flag is removed
    /\ Val(job').errors =
            IF Len(stage_log') > Len(stage_log) /\ stage_log'[Len(stage_log')].raised
            THEN Append(TheJob.errors, Val(stage_log'[Len(stage_log')].error))
            ELSE TheJob.errors
    /\ \A k \in 1..Len(TheJob.flags) : Val(job').flags[k] = TheJob.flags[k]
    \* nothing runs once execute has returned or raised
    /\ pc # "done"

RECURSIVE FlagsPassed(_, _)
FlagsPassed(calls, target) ==
    IF calls = <<>> THEN <<>>
    ELSE (IF Head(calls).target = target THEN <<Head(calls).flag>> ELSE <<>>)
            \o FlagsPassed(Tail(calls), target)
\* the elements of s from position k on that do not occur before their
\* position, in order
RECURSIVE FirstAdditionsFrom(_, _)
FirstAdditionsFrom(s, k) ==
    IF k > Len(s) THEN <<>>
    ELSE (IF \E j \in 1..(k - 1) : s[j] = s[k] THEN <<>> ELSE <<s[k]>>)
            \o FirstAdditionsFrom(s, k + 1)
StartsWith(s, prefix) ==
    Len(prefix) <= Len(s) /\ SubSeq(s, 1, Len(prefix)) = prefix
FlagsInFirstAdditionOrder ==
    flag_job # None =>
        /\ Val(flag_job).flags = FirstAdditionsFrom(FlagsPassed(flag_calls, "job"), 1)
        /\ Val(flag_frame).runtime.flags
                = FirstAdditionsFrom(FlagsPassed(flag_calls, "frame"), 1)
FlagsKept ==
    flag_job # None =>
        /\ StartsWith(Val(flag_job').flags, Val(flag_job).flags)
        /\ StartsWith(Val(flag_frame').runtime.flags, Val(flag_frame).runtime.flags)

\* C21: after any sequence of add_flag calls on a Job and on a FrameMeta, the
\* flags list holds each distinct flag passed exactly once, in order of first
\* addition, and every call keeps the flags already there, in place
C21_AddFlagIdempotent == []FlagsInFirstAdditionOrder /\ [][FlagsKept]_vars
\* a flag was passed twice to the job and twice to the frame
C21_Witness ==
    /\ flag_job # None
    /\ \E a, b \in 1..Len(flag_calls) :
            /\ a < b
            /\ flag_calls[a] = flag_calls[b]
            /\ flag_calls[a].target = "job"
    /\ \E a, b \in 1..Len(flag_calls) :
            /\ a < b
            /\ flag_calls[a] = flag_calls[b]
            /\ flag_calls[a].target = "frame"

\* ---- vocabulary of the claim about get_sorted_frames
\* the internal code of f ends in "-" and a run of digits that starts at k
TrailingSeqAt(f, k) ==
    /\ f.titleblock.internal_code # None
    /\ k >= 2 /\ k <= Len(Val(f.titleblock.internal_code))
    /\ Val(f.titleblock.internal_code)[k - 1] = "-"
    /\ \A i \in k..Len(Val(f.titleblock.internal_code)) :
            Val(f.titleblock.internal_code)[i] \in Digits
HasTrailingSeq(f) ==
    f.titleblock.internal_code # None
        /\ \E k \in 1..Len(Val(f.titleblock.internal_code)) : TrailingSeqAt(f, k)
TrailingSeq(f) ==
    int_of(SubSeq(Val(f.titleblock.internal_code),
                  CHOOSE k \in 1..Len(Val(f.titleblock.internal_code)) :
                      TrailingSeqAt(f, k),
                  Len(Val(f.titleblock.internal_code))))
\* the frames of doc_frames are numbered by position
InputPosition(f) == f.runtime.frame_id
SameKey(f, g) ==
    \/ ~HasTrailingSeq(f) /\ ~HasTrailingSeq(g)
    \/ HasTrailingSeq(f) /\ HasTrailingSeq(g) /\ TrailingSeq(f) = TrailingSeq(g)
SortedAsStated(fs, r) ==
    /\ Len(r) = Len(fs)
    /\ {r[k] : k \in 1..Len(r)} = {fs[k] : k \in 1..Len(fs)}
    /\ \A i, j \in 1..Len(r) :
            i < j =>
                /\ HasTrailingSeq(r[j]) => HasTrailingSeq(r[i])
                /\ HasTrailingSeq(r[i]) /\ HasTrailingSeq(r[j])
                        => TrailingSeq(r[i]) <= TrailingSeq(r[j])
                /\ SameKey(r[i], r[j]) => InputPosition(r[i]) < InputPosition(r[j])
SortedFramesAsStated ==
    sorted_frames # None => SortedAsStated(doc_frames, Val(sorted_frames))

IsClosed(e) ==
    IF e.dxftype = "LWPOLYLINE" THEN e.closed ELSE e.is_closed = Some(TRUE)
\* the point <<x, y>> of floats is a vertex of e within the tolerance
IsVertexOf(e, x, y) ==
    \E k \in 1..Len(e.points) :
        /\ RLe(RAbs(RSub(RInt(e.points[k][1]), x)), Val(finder).coord_tol)
        /\ RLe(RAbs(RSub(RInt(e.points[k][2]), y)), Val(finder).coord_tol)
\* e is a true axis-aligned box whose rectangle is r
TrueBox(e, r) ==
    /\ e.readable
    /\ Len(e.points) >= 4
    /\ Len(cluster_coords(Val(finder),
            List([k \in 1..Len(e.points) |-> RInt(e.points[k][1])]))) = 2
    /\ Len(cluster_coords(Val(finder),
            List([k \in 1..Len(e.points) |-> RInt(e.points[k][2])]))) = 2
    /\ \A x \in {r.xmin, r.xmax} : \A y \in {r.ymin, r.ymax} : IsVertexOf(e, x, y)

\* C23: a closed polygon is accepted as a rectangle candidate only if it is a
\* true axis-aligned box (at least 4 vertices, two x and two y clusters, each
\* corner of the rectangle a vertex within coord_tol): of a model space
\* without lines, every rectangle returned is that of such a polygon.
C23_OnlyTrueBoxes ==
    (pc = "found" /\ ~Val(found_rectangles).raised /\ MspPositions({"LINE"}) = {}) =>
        \A k \in 1..Len(Found) :
            \E p \in MspPositions({"LWPOLYLINE", "POLYLINE"}) :
                IsClosed(msp_entities[p]) /\ TrueBox(msp_entities[p], Found[k])

\* ---- vocabulary of the claim about the line-segment fallback
\* the horizontal and vertical segments [coord, start, end] of the lines
LineSegments ==
    classify_lines(Val(finder), query(msp_entities, "LINE"),
                   [raised |-> FALSE, horizontal |-> <<>>, vertical |-> <<>>])
\* the segments of segs on the line of an edge at coordinate c
Collinear(segs, c) ==
    {k \in 1..Len(segs) : RLe(RAbs(RSub(segs[k].coord, c)), Val(finder).coord_tol)}
\* two segments overlap or are separated by at most coord_tol
Joined(a, b) ==
    /\ RLe(a.start, RAdd(b.end, Val(finder).coord_tol))
    /\ RLe(b.start, RAdd(a.end, Val(finder).coord_tol))
\* the segments of K merge into a single interval
MergeIntoOne(segs, K) ==
    /\ K # {}
    /\ \A T \in SUBSET K :
            (T # {} /\ T # K) =>
                \E a \in T : \E b \in K \ T : Joined(segs[a], segs[b])
\* the edge from start to end at coordinate c is continuously covered
EdgeCovered(segs, c, start, end) ==
    \E K \in SUBSET Collinear(segs, c) :
        /\ MergeIntoOne(segs, K)
        /\ \E a \in K : RLe(segs[a].start, RAdd(start, Val(finder).coord_tol))
        /\ \E b \in K : RLe(RSub(end, Val(finder).coord_tol), segs[b].end)
EdgesCovered(r) ==
    /\ EdgeCovered(LineSegments.horizontal, r.ymin, r.xmin, r.xmax)
    /\ EdgeCovered(LineSegments.horizontal, r.ymax, r.xmin, r.xmax)
    /\ EdgeCovered(LineSegments.vertical, r.xmin, r.ymin, r.ymax)
    /\ EdgeCovered(LineSegments.vertical, r.xmax, r.ymin, r.ymax)

\* C24: in the line-segment fallback a rectangle is returned only if each of
\* its four edges is covered by a single merged interval of collinear
\* segments (merged when they overlap or are at most coord_tol apart) from
\* the edge start + coord_tol or before to the edge end - coord_tol or after;
\* and no rectangle is returned twice.
C24_EdgesCovered ==
    (pc = "found" /\ ~Val(found_rectangles).raised /\ PassingPolygons = {}) =>
        /\ \A k \in 1..Len(Found) : EdgesCovered(Found[k])
        /\ \A i, j \in 1..Len(Found) : i # j => Found[i] # Found[j]
\* C24 witness: the upper edge of the rectangle returned is in two pieces
\* that overlap, and no single line covers it.
C24_Witness ==
    /\ pc = "found"
    /\ PassingPolygons = {}
    /\ Len(Found) = 1
    /\ \A k \in 1..Len(LineSegments.horizontal) :
            ~(/\ RLe(RAbs(RSub(LineSegments.horizontal[k].coord, Found[1].ymax)),
                     Val(finder).coord_tol)
              /\ RLe(LineSegments.horizontal[k].start,
                     RAdd(Found[1].xmin, Val(finder).coord_tol))
              /\ RLe(RSub(Found[1].xmax, Val(finder).coord_tol),
                     LineSegments.horizontal[k].end))

\* ---- vocabulary of the claim about the A4 expansion of locate_frames
\* the positions in candidates of the candidate c
PositionsOf(c) == {k \in 1..Len(candidates) : candidates[k] = c}
IsEmitted(bbox) ==
    \E f \in 1..Len(located) : located[f].runtime.outer_bbox = bbox

\* C25: when the candidate selected for an anchor hit is A4, every candidate
\* of its adjacency cluster is emitted; over the whole call no two returned
\* frames have the same outer bbox and every returned frame has a distinct
\* frame_id.
C25_A4ClusterEmittedOnce ==
    pc = "located" =>
        /\ \A s \in 1..Len(selections) :
                (selections[s] # None /\ Val(selections[s]).paper_variant_id \in A4Ids) =>
                    \A i \in PositionsOf(Val(selections[s])) :
                        \A k \in AdjacencyCluster(i) : IsEmitted(candidates[k].bbox)
        /\ \A f, g \in 1..Len(located) :
                f # g =>
                    /\ located[f].runtime.outer_bbox # located[g].runtime.outer_bbox
                    /\ located[f].runtime.frame_id # located[g].runtime.frame_id
\* C25 witness: two hits select A4 candidates of one cluster that holds the
\* same rectangle twice; the frames returned are the two distinct sheets.
C25_Witness ==
    /\ pc = "located"
    /\ Len(selections) = 2
    /\ selections[1] # None /\ selections[2] # None
    /\ Val(selections[1]).bbox # Val(selections[2]).bbox
    /\ Val(selections[2]).paper_variant_id \in A4Ids
    /\ \E p \in PositionsOf(Val(selections[1])) : \E i, j \in AdjacencyCluster(p) :
            i # j /\ candidates[i].bbox = candidates[j].bbox
    /\ Len(located) = 2

\* ---- vocabulary of the claim about ROI restoration
\* the rational v is base - dist * scale (sign = -1) or base + dist * scale
\* (sign = 1), compared without the arithmetic of the model
IsOffsetFrom(v, base, sign, dist, scale) ==
    v.n * scale.d = (base * scale.d + sign * dist * scale.n) * v.d
\* roi is the ROI stated for roi_args
StatedRoi(roi) ==
    LET right == roi_args.rb_offset[1]
        left == roi_args.rb_offset[2]
        bottom == roi_args.rb_offset[3]
        top == roi_args.rb_offset[4]
    IN /\ IsOffsetFrom(roi.xmin, roi_args.outer_bbox.xmax, -1, left, roi_args.sx)
       /\ IsOffsetFrom(roi.xmax, roi_args.outer_bbox.xmax, -1, right, roi_args.sx)
       /\ IsOffsetFrom(roi.ymin, roi_args.outer_bbox.ymin, 1, bottom, roi_args.sy)
       /\ IsOffsetFrom(roi.ymax, roi_args.outer_bbox.ymin, 1, top, roi_args.sy)
OffsetsOrdered ==
    /\ roi_args.rb_offset[1] <= roi_args.rb_offset[2]
    /\ roi_args.rb_offset[3] <= roi_args.rb_offset[4]
    /\ roi_args.sx.n * roi_args.sx.d > 0
    /\ roi_args.sy.n * roi_args.sy.d > 0
RoiOrdered(roi) ==
    /\ roi.xmin.n * roi.xmax.d <= roi.xmax.n * roi.xmin.d
    /\ roi.ymin.n * roi.ymax.d <= roi.ymax.n * roi.ymin.d

\* C26: the validator, the locator and the extractor restore the same ROI
\* from the same arguments: xmin = outer.xmax - left * sx, xmax = outer.xmax -
\* right * sx, ymin = outer.ymin + bottom * sy, ymax = outer.ymin + top * sy;
\* with right <= left, bottom <= top and positive scales, xmin <= xmax and
\* ymin <= ymax.
C26_RoiRestoredAlike ==
    roi_args # <<>> =>
        \A u \in RoiUsers :
            roi_result[u] # None =>
                /\ StatedRoi(Val(roi_result[u]))
                /\ \A w \in RoiUsers :
                        roi_result[w] # None => roi_result[w] = roi_result[u]
                /\ OffsetsOrdered => RoiOrdered(Val(roi_result[u]))
\* C26 witness: the three components have restored the ROI of an offset with
\* right < left and bottom < top at a scale that is not 1, on a sheet whose
\* corner is not the origin.
C26_Witness ==
    /\ roi_args # <<>>
    /\ \A u \in RoiUsers : roi_result[u] # None
    /\ roi_args.rb_offset[1] < roi_args.rb_offset[2]
    /\ roi_args.rb_offset[3] < roi_args.rb_offset[4]
    /\ roi_args.rb_offset[1] > 0
    /\ roi_args.sx = Rat(3, 2)
    /\ roi_args.sy = Rat(1, 2)
    /\ roi_args.outer_bbox.ymin > 0

\* ---- vocabulary of the claim about failures inside the stages
\* the flag that names the failure of item it in the stage of the result res
FailureFlagged(res, k) ==
    IF res.stage = "CONVERT_DWG_TO_DXF"
    THEN \E f \in 1..Len(res.job.flags) :
            res.job.flags[f] = fmt(FLAG_CONVERT_FAILED, stage_items[k].name)
    ELSE IF res.stage = "DETECT_FRAMES"
    THEN \E f \in 1..Len(res.job.flags) :
            res.job.flags[f] = fmt(FLAG_DETECT_FAILED, stage_items[k].name)
    ELSE \E f \in 1..Len(res.frames[k].runtime.flags) :
            res.frames[k].runtime.flags[f] = FLAG_EXTRACT_FAILED
IsolatedIn(res) ==
    /\ \A k \in 1..Len(stage_items) : stage_items[k].raises => FailureFlagged(res, k)
    /\ res.called = [k \in 1..Len(stage_items) |-> stage_items[k].name]
    /\ ~res.raised
    /\ res.job.status # FAILED

\* C27: when converting one DWG, detecting the frames of one DXF or extracting
\* the fields of one frame raises, a flag naming the failure is added, the
\* other files or frames of the stage are still processed, the stage does not
\* raise and the job is not FAILED.
C27_FailuresIsolated ==
    (stage_result # None /\ \E k \in 1..Len(stage_items) : stage_items[k].raises) =>
        IsolatedIn(Val(stage_result))

\* ---- vocabulary of the claim about the text scan
\* the entities nested d inserts deep, level by level from the model space;
\* the attributes of an insert are at the depth of the insert
RECURSIVE BlockContents(_)
BlockContents(es) ==
    IF es = <<>> THEN <<>>
    ELSE (IF Head(es).tp = "INSERT" THEN ScanBlocks[Head(es).block] ELSE <<>>)
         \o BlockContents(Tail(es))
RECURSIVE AttribsOf(_)
AttribsOf(es) ==
    IF es = <<>> THEN <<>>
    ELSE (IF Head(es).tp = "INSERT" THEN Head(es).attribs ELSE <<>>)
         \o AttribsOf(Tail(es))
RECURSIVE EntitiesAt(_)
EntitiesAt(d) == IF d = 0 THEN scan_msp ELSE BlockContents(EntitiesAt(d - 1))
IsBlank(s) == \A k \in 1..Len(s) : s[k] = " "
\* the texts with content of the entities es
TextsIn(es) ==
    {k \in 1..Len(es) : es[k].tp \in TEXT_TYPES /\ ~IsBlank(es[k].text)}
\* how many texts with content there are at depth d
TextsAt(d) ==
    Cardinality(TextsIn(EntitiesAt(d))) + Cardinality(TextsIn(AttribsOf(EntitiesAt(d))))
YieldedAt(d) == Cardinality({k \in 1..Len(scan_items) : scan_items[k].source.virtual = d})
ScanBounded ==
    /\ \A k \in 1..Len(scan_visited) : scan_visited[k].depth <= 8
    /\ \A k \in 1..Len(scan_items) :
            /\ scan_items[k].source.virtual <= 8
            /\ scan_items[k].text # <<>>
            /\ ~IsBlank(scan_items[k].text)
    /\ pc = "scanned" => \A d \in 0..8 : YieldedAt(d) = TextsAt(d)

RelativeDistance(std, scale, obs) == RDiv(RAbs(RSub(RMul(std, scale), obs)), obs)
PairingError(c) ==
    RMax(RelativeDistance(RDiv(RInt(width(c.bbox)), c.sx),
                          RDiv(RAdd(c.sx, c.sy), RInt(2)), RInt(width(c.bbox))),
         RelativeDistance(RDiv(RInt(height(c.bbox)), c.sy),
                          RDiv(RAdd(c.sx, c.sy), RInt(2)), RInt(height(c.bbox))))

\* C29: the fit_error stored in each candidate of _build_candidates is the
\* error of the pairing PaperFitter.fit selected for its rectangle, also when
\* that pairing is the rotated one.
C29_FitErrorOfSelectedPairing ==
    pc = "located" =>
        \A k \in 1..Len(candidates) :
            /\ fit(locator.fitter, candidates[k].bbox, locator.paper_variants) # None
            /\ candidates[k].fit_error =
                    Val(fit(locator.fitter, candidates[k].bbox, locator.paper_variants)).error
            /\ candidates[k].fit_error = PairingError(candidates[k])

\* ---- vocabulary of the claim about terminal job states
TerminalStatuses == {CANCELLED, SUCCEEDED, FAILED}
\* every call of cancel_job made so far did what is stated of it
CancelAsStated ==
    \A k \in 1..Len(cancel_log) :
        IF cancel_log[k].before.status \in {QUEUED, RUNNING}
        THEN /\ cancel_log[k].returned
             /\ cancel_log[k].after.status = CANCELLED
        ELSE /\ ~cancel_log[k].returned
             /\ cancel_log[k].after = cancel_log[k].before
\* a step from a terminal status leaves the status as it is
TerminalKept ==
    (job # None /\ Val(job).status \in TerminalStatuses) =>
        (job' # None /\ Val(job').status = Val(job).status)

\* C30: cancel_job changes the status only from QUEUED or RUNNING, to
\* CANCELLED, returning true, and otherwise returns false and leaves the job
\* as it is; once the status is CANCELLED, SUCCEEDED or FAILED no later step
\* of execute or cancel_job changes it.
C30_TerminalAbsorbing == []CancelAsStated /\ [][TerminalKept]_vars

====
